---- MODULE Spec2Model ----
(***************************************************************************)
(* Clinical immune-cell analysis dashboard.                                *)
(*                                                                         *)
(* Part 1: the CSV loader (analysis-dashboard/load_cell_counts.py) writing *)
(*         the relational store, and the aggregation query                 *)
(*         (analysis-dashboard/db_summary.py, streamlit_app.py) reading it.*)
(* Part 2: the group filter (analysis-dashboard/response_plot.py).         *)
(*                                                                         *)
(* A CSV cell is a sequence of tokens: single characters for the cells     *)
(* that are parsed (counts, age, time_from_treatment_start) and a word,    *)
(* possibly surrounded by whitespace tokens, for the text cells.           *)
(***************************************************************************)
EXTENDS Integers, Sequences, FiniteSets, TLC

(***************************************************************************)
(* Bounds of the model.                                                    *)
(***************************************************************************)
\* number of load_csv_into_db calls in a run
MaxLoads == 2
\* total number of CSV data rows read over all calls of a run
MaxRows == 2

(***************************************************************************)
(* Program constants.                                                      *)
(***************************************************************************)
CELL_POPULATIONS == <<"b_cell", "cd8_t_cell", "cd4_t_cell", "nk_cell", "monocyte">>

Pops == {CELL_POPULATIONS[i] : i \in 1..Len(CELL_POPULATIONS)}

MetaColumns ==
  {"project", "subject", "condition", "age", "sex", "treatment", "response",
   "sample", "sample_type", "time_from_treatment_start"}

\* the `required` set of load_csv_into_db
RequiredColumns == MetaColumns \cup Pops

(***************************************************************************)
(* str.strip() and int() on cells.                                         *)
(***************************************************************************)
Whitespace == {" ", "\t"}

Digits == {"0", "1", "2", "3", "4", "5", "6", "7", "8", "9"}

DigitVal ==
  [d \in Digits |->
     CASE d = "0" -> 0 [] d = "1" -> 1 [] d = "2" -> 2 [] d = "3" -> 3
       [] d = "4" -> 4 [] d = "5" -> 5 [] d = "6" -> 6 [] d = "7" -> 7
       [] d = "8" -> 8 [] d = "9" -> 9]

RECURSIVE LStrip(_)
LStrip(s) ==
  IF s # <<>> /\ Head(s) \in Whitespace THEN LStrip(Tail(s)) ELSE s

RECURSIVE RStrip(_)
RStrip(s) ==
  IF s # <<>> /\ s[Len(s)] \in Whitespace
    THEN RStrip(SubSeq(s, 1, Len(s) - 1))
    ELSE s

Strip(s) == RStrip(LStrip(s))

\* `x.strip() or None`
NULL == <<"NULL">>

StripOrNone(s) == IF Strip(s) = <<>> THEN NULL ELSE Strip(s)

HasSign(s) == s # <<>> /\ Head(s) \in {"-", "+"}

DigitsOf(s) == IF HasSign(s) THEN Tail(s) ELSE s

\* int(s) succeeds: optional sign, then one or more decimal digits
IsIntLiteral(s) ==
  /\ DigitsOf(s) # <<>>
  /\ \A i \in 1..Len(DigitsOf(s)) : DigitsOf(s)[i] \in Digits

RECURSIVE DigitsValue(_)
DigitsValue(ds) ==
  IF ds = <<>> THEN 0
  ELSE 10 * DigitsValue(SubSeq(ds, 1, Len(ds) - 1)) + DigitVal[ds[Len(ds)]]

IntOf(s) ==
  IF HasSign(s) /\ Head(s) = "-" THEN 0 - DigitsValue(DigitsOf(s))
  ELSE DigitsValue(DigitsOf(s))

\* Optional[int]: <<>> is None, <<n>> is the integer n
NoneInt == <<>>

OptInt(s) == IF s # <<>> THEN <<IntOf(s)>> ELSE NoneInt

(***************************************************************************)
(* The relational store: SCHEMA_SQL.  A table is a set of rows; `id` is    *)
(* the INTEGER PRIMARY KEY (rowid) of a row.                               *)
(***************************************************************************)
EmptyTables ==
  [project |-> {}, subject |-> {}, sample |-> {}, cell_population |-> {},
   sample_cell_count |-> {}]

SetMax(S) == CHOOSE x \in S : \A y \in S : y <= x

SetMin(S) == CHOOSE x \in S : \A y \in S : x <= y

\* rowid given to a new row of an INTEGER PRIMARY KEY table: largest + 1
NextRowid(rows) == IF rows = {} THEN 1 ELSE SetMax({r.id : r \in rows}) + 1

\* cursor.fetchone() of a one-column id query: None, or the first id
FetchOne(ids) == IF ids = {} THEN NoneInt ELSE <<SetMin(ids)>>

\* INSERT OR IGNORE INTO cell_population(name): name is UNIQUE
InsertOrIgnorePopulation(t, name) ==
  IF \E r \in t.cell_population : r.name = name THEN t
  ELSE [t EXCEPT !.cell_population =
          @ \cup {[id |-> NextRowid(@), name |-> name]}]

RECURSIVE SeedPopulations(_, _)
SeedPopulations(t, names) ==
  IF names = <<>> THEN t
  ELSE SeedPopulations(InsertOrIgnorePopulation(t, Head(names)), Tail(names))

\* initialize_schema: CREATE TABLE IF NOT EXISTS keeps the rows of an existing
\* table; the seed rows are inserted in the connection's pending transaction
initialize_schema(t) == SeedPopulations(t, CELL_POPULATIONS)

\* INSERT OR IGNORE INTO project(name): name is UNIQUE
InsertOrIgnoreProject(t, name) ==
  IF \E r \in t.project : r.name = name THEN t
  ELSE [t EXCEPT !.project = @ \cup {[id |-> NextRowid(@), name |-> name]}]

SelectProjectId(t, name) ==
  FetchOne({r.id : r \in {x \in t.project : x.name = name}})

\* an upsert: a stored subject takes the condition, age and sex of the row
InsertOrUpdateSubject(t, project_id, subject_code, condition, age, sex) ==
  IF \E r \in t.subject :
       r.project_id = project_id /\ r.subject_code = subject_code
    THEN [t EXCEPT !.subject =
            {IF r.project_id = project_id /\ r.subject_code = subject_code
               THEN [r EXCEPT !.condition = condition, !.age = age, !.sex = sex]
               ELSE r : r \in @}]
    ELSE [t EXCEPT !.subject =
            @ \cup {[id |-> NextRowid(@), project_id |-> project_id,
                     subject_code |-> subject_code, condition |-> condition,
                     age |-> age, sex |-> sex]}]

\* INSERT OR IGNORE INTO subject(...): UNIQUE(project_id, subject_code)
InsertOrIgnoreSubject(t, project_id, subject_code, condition, age, sex) ==
  IF \E r \in t.subject :
       r.project_id = project_id /\ r.subject_code = subject_code
    THEN t
    ELSE [t EXCEPT !.subject =
            @ \cup {[id |-> NextRowid(@), project_id |-> project_id,
                     subject_code |-> subject_code, condition |-> condition,
                     age |-> age, sex |-> sex]}]

SelectSubjectId(t, project_id, subject_code) ==
  FetchOne({r.id : r \in {x \in t.subject :
              x.project_id = project_id /\ x.subject_code = subject_code}})

\* INSERT OR REPLACE INTO sample(...) without removing the row in conflict
InsertOrReplaceSampleKeepOld(t, subject_id, sample_code, sample_type, tfts, treatment, response) ==
  [t EXCEPT !.sample =
     @ \cup {[id |-> NextRowid(@), subject_id |-> subject_id,
              sample_code |-> sample_code, sample_type |-> sample_type,
              time_from_treatment_start |-> tfts, treatment |-> treatment,
              response |-> response]}]

\* INSERT OR IGNORE INTO sample(...): a stored sample_code keeps its row
InsertOrIgnoreSample(t, subject_id, sample_code, sample_type, tfts, treatment, response) ==
  IF \E r \in t.sample : r.sample_code = sample_code THEN t
  ELSE [t EXCEPT !.sample =
          @ \cup {[id |-> NextRowid(@), subject_id |-> subject_id,
                   sample_code |-> sample_code, sample_type |-> sample_type,
                   time_from_treatment_start |-> tfts, treatment |-> treatment,
                   response |-> response]}]

\* INSERT OR REPLACE INTO sample(...) with foreign keys off: the row in
\* conflict is deleted and its sample_cell_count rows stay
InsertOrReplaceSampleNoCascade(t, subject_id, sample_code, sample_type, tfts, treatment, response) ==
  [t EXCEPT !.sample =
     {r \in @ : r.sample_code # sample_code}
       \cup {[id |-> NextRowid(@), subject_id |-> subject_id,
               sample_code |-> sample_code, sample_type |-> sample_type,
               time_from_treatment_start |-> tfts, treatment |-> treatment,
               response |-> response]}]

\* INSERT OR REPLACE INTO sample(...): sample_code is UNIQUE; the row in
\* conflict is deleted (ON DELETE CASCADE removes its sample_cell_count rows)
\* and the new row takes a fresh rowid
InsertOrReplaceSample(t, subject_id, sample_code, sample_type, tfts, treatment, response) ==
  LET old    == {r \in t.sample : r.sample_code = sample_code}
      oldIds == {r.id : r \in old}
      new    == [id |-> NextRowid(t.sample), subject_id |-> subject_id,
                 sample_code |-> sample_code, sample_type |-> sample_type,
                 time_from_treatment_start |-> tfts, treatment |-> treatment,
                 response |-> response]
  IN [t EXCEPT !.sample = (@ \ old) \cup {new},
               !.sample_cell_count = {c \in @ : c.sample_id \notin oldIds}]

SelectSampleId(t, sample_code) ==
  FetchOne({r.id : r \in {x \in t.sample : x.sample_code = sample_code}})

\* INSERT OR REPLACE INTO sample_cell_count: PRIMARY KEY (sample_id, population_id)
InsertOrReplaceCount(t, c) ==
  [t EXCEPT !.sample_cell_count =
     {x \in @ : ~(x.sample_id = c.sample_id /\ x.population_id = c.population_id)}
       \cup {c}]

RECURSIVE ExecuteManyCounts(_, _)
ExecuteManyCounts(t, cs) ==
  IF cs = <<>> THEN t
  ELSE ExecuteManyCounts(InsertOrReplaceCount(t, Head(cs)), Tail(cs))

(***************************************************************************)
(* _get_id_cached: a cache is a function from keys to ids.                 *)
(***************************************************************************)
EmptyCache == <<>>

\* the id returned: the cached one, else the one the SELECT fetched
CachedId(cache, key, fetched) ==
  IF key \in DOMAIN cache THEN <<cache[key]>> ELSE fetched

\* the cache after the call
CacheAfter(cache, key, fetched) ==
  IF key \in DOMAIN cache \/ fetched = NoneInt THEN cache
  ELSE (key :> fetched[1]) @@ cache

(***************************************************************************)
(* Results of a call: what it raised, if anything.                         *)
(***************************************************************************)
Result(kind, message, population, sample, columns) ==
  [kind |-> kind, message |-> message, population |-> population,
   sample |-> sample, columns |-> columns]

NoResult == Result("none", "", "", <<>>, {})

Returned == Result("ok", "", "", <<>>, {})

FileNotFound == Result("FileNotFoundError", "path", "", <<>>, {})

NoHeaderError == Result("ValueError", "CSV file has no header", "", <<>>, {})

MissingColumnsError(missing) ==
  Result("ValueError", "CSV missing required columns", "", <<>>, missing)

MissingCountError(pop, sample_code) ==
  Result("ValueError", "Missing count for population", pop, sample_code, {})

InvalidLiteralError == Result("ValueError", "invalid literal for int()", "", <<>>, {})

ExpectedRowError == Result("RuntimeError", "Expected row not found", "", <<>>, {})

(***************************************************************************)
(* load_csv_into_db: the body of `for row in reader`.                      *)
(***************************************************************************)
\* the count loop with a blank cell skipped instead of rejected
RECURSIVE CountsLoopSkipBlank(_, _, _, _, _, _)
CountsLoopSkipBlank(row, sample_code, sample_id, population_cache, pops, acc) ==
  IF pops = <<>> THEN [error |-> NoResult, counts |-> acc]
  ELSE LET pop == Head(pops)
           val == Strip(row.counts[pop])
       IN IF val = <<>>
            THEN CountsLoopSkipBlank(row, sample_code, sample_id,
                                     population_cache, Tail(pops), acc)
          ELSE IF ~IsIntLiteral(val)
            THEN [error |-> InvalidLiteralError, counts |-> acc]
          ELSE CountsLoopSkipBlank(row, sample_code, sample_id,
                 population_cache, Tail(pops),
                 Append(acc, [sample_id |-> sample_id,
                              population_id |-> population_cache[pop],
                              count |-> IntOf(val)]))

\* `for pop in CELL_POPULATIONS`: builds counts_to_insert or raises
RECURSIVE CountsLoop(_, _, _, _, _, _)
CountsLoop(row, sample_code, sample_id, population_cache, pops, acc) ==
  IF pops = <<>> THEN [error |-> NoResult, counts |-> acc]
  ELSE LET pop == Head(pops)
           val == Strip(row.counts[pop])
       IN IF val = <<>>
            THEN [error |-> MissingCountError(pop, sample_code), counts |-> acc]
          ELSE IF ~IsIntLiteral(val)
            THEN [error |-> InvalidLiteralError, counts |-> acc]
          ELSE CountsLoop(row, sample_code, sample_id, population_cache,
                 Tail(pops),
                 Append(acc, [sample_id |-> sample_id,
                              population_id |-> population_cache[pop],
                              count |-> IntOf(val)]))

RowResult(error, t, project_cache, subject_cache) ==
  [error |-> error, tables |-> t, project_cache |-> project_cache,
   subject_cache |-> subject_cache]

\* one iteration of the row loop on the transaction's tables t
ProcessRow(t, project_cache, subject_cache, population_cache, row) ==
  LET project_name == Strip(row.project)
      subject_code == Strip(row.subject)
      condition    == Strip(row.condition)
      age_str      == Strip(row.age)
      sex          == StripOrNone(row.sex)
      treatment    == StripOrNone(row.treatment)
      response     == StripOrNone(row.response)
      sample_code  == Strip(row.sample)
      sample_type  == StripOrNone(row.sample_type)
      tfts_str     == Strip(row.time_from_treatment_start)
      failed(e)    == RowResult(e, t, project_cache, subject_cache)
  IN
  IF age_str # <<>> /\ ~IsIntLiteral(age_str) THEN failed(InvalidLiteralError)
  ELSE IF tfts_str # <<>> /\ ~IsIntLiteral(tfts_str) THEN failed(InvalidLiteralError)
  ELSE
  LET age  == OptInt(age_str)
      tfts == OptInt(tfts_str)
      t1   == InsertOrIgnoreProject(t, project_name)
      pf   == SelectProjectId(t1, project_name)
      pid  == CachedId(project_cache, project_name, pf)
      pc1  == CacheAfter(project_cache, project_name, pf)
  IN
  IF pid = NoneInt THEN failed(ExpectedRowError)
  ELSE
  LET project_id == pid[1]
      t2   == InsertOrIgnoreSubject(t1, project_id, subject_code, condition,
                                    age, sex)
      skey == <<project_id, subject_code>>
      sf   == SelectSubjectId(t2, project_id, subject_code)
      sid  == CachedId(subject_cache, skey, sf)
      sc1  == CacheAfter(subject_cache, skey, sf)
  IN
  IF sid = NoneInt THEN failed(ExpectedRowError)
  ELSE
  LET subject_id == sid[1]
      t3   == InsertOrReplaceSample(t2, subject_id, sample_code, sample_type,
                                    tfts, treatment, response)
      sample_id == SelectSampleId(t3, sample_code)[1]
      loop == CountsLoop(row, sample_code, sample_id, population_cache,
                         CELL_POPULATIONS, <<>>)
  IN
  IF loop.error # NoResult THEN failed(loop.error)
  ELSE RowResult(NoResult, ExecuteManyCounts(t3, loop.counts), pc1, sc1)

(***************************************************************************)
(* The aggregation query.                                                  *)
(* A REAL column is an exact fraction <<numerator, denominator>>; SQL NULL *)
(* (what SQLite yields for a division by zero) is <<>>.                    *)
(***************************************************************************)
NullReal == <<>>

\* x * k / y in SQLite REAL arithmetic
SqlDivide(num, den) == IF den = 0 THEN NullReal ELSE <<num, den>>

RECURSIVE SumCounts(_)
SumCounts(rows) ==
  IF rows = {} THEN 0
  ELSE LET r == CHOOSE x \in rows : TRUE
       IN r.count + SumCounts(rows \ {r})

\* the totals of a query that lost its GROUP BY: one total over all samples
TotalsUngrouped(t) ==
  [sid \in {c.sample_id : c \in t.sample_cell_count} |->
     SumCounts(t.sample_cell_count)]

\* SELECT sample_id, SUM(count) AS total_count FROM sample_cell_count
\* GROUP BY sample_id
Totals(t) ==
  [sid \in {c.sample_id : c \in t.sample_cell_count} |->
     SumCounts({c \in t.sample_cell_count : c.sample_id = sid})]

\* byte order of the words used as sample codes and population names
WordRank(w) ==
  CASE w = "A" -> 1 [] w = "B" -> 2 [] w = "C" -> 3
    [] w = "b_cell" -> 11 [] w = "cd4_t_cell" -> 12 [] w = "cd8_t_cell" -> 13
    [] w = "monocyte" -> 14 [] w = "nk_cell" -> 15
    [] OTHER -> 0

RECURSIVE TextLess(_, _)
TextLess(s, t) ==
  IF t = <<>> THEN FALSE
  ELSE IF s = <<>> THEN TRUE
  ELSE IF WordRank(Head(s)) # WordRank(Head(t))
    THEN WordRank(Head(s)) < WordRank(Head(t))
  ELSE TextLess(Tail(s), Tail(t))

\* ORDER BY s.sample_code, cp.name
OrderedBefore(x, y) ==
  \/ TextLess(x.sample, y.sample)
  \/ x.sample = y.sample /\ WordRank(x.population) <= WordRank(y.population)
  \/ ~TextLess(x.sample, y.sample) /\ ~TextLess(y.sample, x.sample)
       /\ x.sample # y.sample

RECURSIVE OrderBy(_)
OrderBy(rows) ==
  IF rows = {} THEN <<>>
  ELSE LET first == CHOOSE x \in rows : \A y \in rows : OrderedBefore(x, y)
       IN <<first>> \o OrderBy(rows \ {first})

\* db_summary.load_summary_with_sample_metadata_from_db: the SELECT
SummaryWithMetadataRows(t) ==
  LET totals == Totals(t)
  IN UNION {UNION {UNION {UNION {
       {[project |-> p.name, subject |-> sub.subject_code,
         condition |-> sub.condition, age |-> sub.age, sex |-> sub.sex,
         sample |-> s.sample_code, sample_type |-> s.sample_type,
         time_from_treatment_start |-> s.time_from_treatment_start,
         treatment |-> s.treatment, response |-> s.response,
         total_count |-> totals[scc.sample_id], population |-> cp.name,
         count |-> scc.count,
         prop |-> SqlDivide(scc.count, totals[scc.sample_id]),
         percentage |-> SqlDivide(scc.count * 100, totals[scc.sample_id])]
          : cp \in {x \in t.cell_population : x.id = scc.population_id}}
          : p \in {x \in t.project : x.id = sub.project_id}}
          : sub \in {x \in t.subject : x.id = s.subject_id}}
          : s \in {x \in t.sample : x.id = scc.sample_id}}
          : scc \in t.sample_cell_count}

\* streamlit_app.load_summary_from_db: the SELECT
SummaryFromDbRows(t) ==
  LET totals == Totals(t)
  IN UNION {UNION {
       {[sample |-> s.sample_code, total_count |-> totals[scc.sample_id],
         population |-> cp.name, count |-> scc.count,
         percentage |-> SqlDivide(scc.count * 100, totals[scc.sample_id])]
          : cp \in {x \in t.cell_population : x.id = scc.population_id}}
          : s \in {x \in t.sample : x.id = scc.sample_id}}
          : scc \in t.sample_cell_count}

(***************************************************************************)
(* Inputs: the CSV files a run may be given.                               *)
(***************************************************************************)
\* reader.fieldnames: None for an empty file, else the header's column names
Headers ==
  {[has_header |-> FALSE, fieldnames |-> {}]}
    \cup {[has_header |-> TRUE, fieldnames |-> RequiredColumns \ m] :
            m \in {{}, {"time_from_treatment_start"}, {"monocyte"},
                   {"age", "b_cell"}}}
    \cup {[has_header |-> TRUE, fieldnames |-> RequiredColumns \cup {"other"}]}

CountCells(cs) ==
  [p \in Pops |-> cs[CHOOSE i \in 1..Len(CELL_POPULATIONS) : CELL_POPULATIONS[i] = p]]

\* count cells that int() accepts
GoodCounts ==
  {CountCells(<<<<"1">>, <<"2">>, <<"3">>, <<"4">>, <<"5">>>>),
   CountCells(<<<<"0">>, <<"0">>, <<"0">>, <<"0">>, <<"0">>>>),
   CountCells(<<<<"-", "1">>, <<" ", "3">>, <<"0">>, <<"0">>, <<"0">>>>)}

\* count cells with a blank or a non-numeric cell
BadCounts ==
  {CountCells(<<<<"1">>, <<"2">>, <<"3">>, <<"4">>, <<>>>>),
   CountCells(<<<<" ">>, <<"2">>, <<"3">>, <<"4">>, <<"5">>>>),
   CountCells(<<<<"1">>, <<>>, <<"3">>, <<"4">>, <<" ", "\t">>>>),
   CountCells(<<<<"x">>, <<>>, <<"3">>, <<"4">>, <<"5">>>>),
   CountCells(<<<<>>, <<"x">>, <<"3">>, <<"4">>, <<"5">>>>)}

CsvRow(project, subject, condition, age, sample, counts) ==
  [project |-> project, subject |-> subject, condition |-> condition,
   age |-> age, sex |-> <<"F">>, treatment |-> <<"DrugA">>,
   response |-> <<"yes">>, sample |-> sample, sample_type |-> <<"PBMC">>,
   time_from_treatment_start |-> <<"0">>, counts |-> counts]

\* rows that load: two projects, two sample codes, and a repeat of subject
\* S1 of project P1 under another condition and age
GoodRows ==
  {CsvRow(p, <<"S1">>, <<"c1">>, <<"3", "4">>, s, n) :
     p \in {<<"P1">>, <<"P2">>}, s \in {<<"A">>, <<"B", " ">>}, n \in GoodCounts}
    \cup {CsvRow(<<"P1">>, <<"S1">>, <<"c2">>, <<>>, <<"A">>, n) :
            n \in {CountCells(<<<<"1">>, <<"2">>, <<"3">>, <<"4">>, <<"5">>>>)}}

\* rows that raise: a blank or non-numeric count cell, a non-numeric age
BadRows ==
  {CsvRow(<<"P1">>, <<"S1">>, <<"c1">>, <<>>, <<"B", " ">>, n) : n \in BadCounts}
    \cup {CsvRow(<<"P1">>, <<"S1">>, <<"c1">>, <<"x">>, <<"A">>, n) :
            n \in {CountCells(<<<<"1">>, <<"2">>, <<"3">>, <<"4">>, <<"5">>>>)}}

CsvRows == GoodRows \cup BadRows

NoRow == CsvRow(<<>>, <<>>, <<>>, <<>>, <<>>, CountCells(<<<<>>, <<>>, <<>>, <<>>, <<>>>>))

(***************************************************************************)
(* State.                                                                  *)
(***************************************************************************)
VARIABLES
  dbExists,          \* the database file exists
  db,                \* the committed tables of the database file
  conn,              \* "closed" or "open": the connection of the running call
  connected,         \* the last call opened a connection
  tx,                \* the tables as seen inside the open transaction
  pc,                \* "idle", or "rows" inside `for row in reader`
  rowsLeft,          \* rows of the CSV not yet read
  row_count,         \* row_count of load_csv_into_db
  row,               \* the row last read
  project_cache, subject_cache, population_cache,
  load_result,       \* how the last load_csv_into_db call ended
  dbAtCall,          \* the committed tables when that call started
  loads,             \* calls of load_csv_into_db so far
  rowsRead,          \* rows read so far by all calls
  summary_result,    \* how the last summary call ended
  df                 \* the table it returned

loadVars ==
  <<dbExists, db, conn, connected, tx, pc, rowsLeft, row_count, row,
    project_cache, subject_cache, population_cache, load_result, dbAtCall,
    loads, rowsRead, summary_result, df>>

\* the filter's state (Part 2)
VARIABLES
  heap,        \* DataFrame objects
  df_ref,      \* the table passed to apply_filters
  out_ref,     \* the table it returned, 0 before the call
  selection,   \* the predicates of the call
  df_before,   \* the rows of the passed table when the call was made
  fpc          \* "ready", "returned", "mutated"

filterVars == <<heap, df_ref, out_ref, selection, df_before, fpc>>

\* a call of apply_filters by keyword (Part 2)
VARIABLES
  kwargs,        \* the keyword arguments of the call
  filter_error   \* the exception the call raised, NoResult if none

callVars == <<kwargs, filter_error>>

\* Benjamini-Hochberg adjustment (Part 3)
VARIABLES
  p_values,    \* the list passed to _bh_adjust
  bh,          \* the locals of _bh_adjust when it returned
  bh_pc        \* "ready" or "returned"

\* the permutation test (Part 3)
VARIABLES
  n_permutations,  \* the slider's value, read by _two_sided_permutation_pvalue
  rng,             \* the generator: the lengths it has shuffled since seeding
  oracle,          \* the permutation the seed gives at each generator state
  a, b,            \* the arguments of the running or last call
  observed, pooled, diffs,
  shuffled,        \* pooled after each shuffle of the call
  permutations,    \* the permutation of each shuffle of the call
  p_value,         \* the value the last call returned
  perm_pc,         \* "idle", "loop" or "returned"
  calls            \* the calls that have returned

permVars ==
  <<n_permutations, rng, oracle, a, b, observed, pooled, diffs, shuffled,
    permutations, p_value, perm_pc, calls>>

bhVars == <<p_values, bh, bh_pc>>

\* the statistics of main (Part 3)
VARIABLES
  plot_df,      \* the filtered rows with a recognised response
  populations,  \* the sorted population names of plot_df
  pop_index,    \* the position of `for pop in populations`
  rows,         \* one dict per tested population
  stats_df,     \* the result table, <<>> if none is shown
  main_pc,      \* "start", "loop" or "done"
  runs          \* what each finished run of main produced

mainVars == <<plot_df, populations, pop_index, rows, stats_df, main_pc, runs>>

\* the loop of one call of the permutation test, kept as counts (Part 3)
VARIABLES
  iterations,   \* iterations of `for i in range(n_permutations)` done
  extreme       \* how many entries of diffs so far are >= observed

exampleVars == <<iterations, extreme>>

\* analyze_all_populations (Part 4)
VARIABLES
  categories,      \* df["population"].cat.categories
  fit_index,       \* the position of `for population in ...`
  fit_log,         \* how the fit of each population visited ended
  results,         \* the list of result dicts
  results_df,      \* the table returned, <<>> if none
  analyze_result,  \* how the call ended, NoResult while it runs
  analyze_pc       \* "ready", "loop", "returned" or "raised"

analyzeVars ==
  <<categories, fit_index, fit_log, results, results_df, analyze_result, analyze_pc>>

\* prepare_response_plot_df (Part 4)
VARIABLES
  prepare_result,  \* how the call ended, NoResult before it
  prepare_pc       \* "ready", "returned" or "raised"

prepareVars == <<prepare_result, prepare_pc>>

\* main: the response labels (Part 4)
VARIABLES
  labelled_df      \* plot_df before line 220, with the column response as entered

labelVars == <<labelled_df>>

\* a CSV file that is loaded more than once (Part 4)
VARIABLES
  csv_file         \* the rows of the file, in order

fileVars == <<csv_file>>

\* what the statistics of main leave alone
restVars == <<exampleVars, analyzeVars, prepareVars, labelVars, fileVars>>

statVars == <<bhVars, permVars, mainVars, restVars>>

InitLoad ==
  /\ dbExists = FALSE
  /\ db = EmptyTables
  /\ conn = "closed"
  /\ connected = FALSE
  /\ tx = EmptyTables
  /\ pc = "idle"
  /\ rowsLeft = 0
  /\ row_count = 0
  /\ row = NoRow
  /\ project_cache = EmptyCache
  /\ subject_cache = EmptyCache
  /\ population_cache = EmptyCache
  /\ load_result = NoResult
  /\ dbAtCall = EmptyTables
  /\ loads = 0
  /\ rowsRead = 0
  /\ summary_result = NoResult
  /\ df = <<>>

(***************************************************************************)
(* sqlite3 connection semantics.                                           *)
(***************************************************************************)
\* a context manager that commits whatever happened in the block
ConnExitAlwaysCommits(committed, pending, raised) == pending

\* `with conn:` __exit__: commit when the block ended normally, roll back
\* when it raised
ConnExit(committed, pending, raised) ==
  IF raised THEN committed ELSE pending

\* conn.close() with a transaction still pending: its changes are dropped
ConnClose(committed, pending) == committed

\* the connection is closed as the last statement of the block
CloseAtEnd(raised) == IF raised THEN "open" ELSE "closed"

\* `try: ... finally: conn.close()`: the connection after the statement,
\* whether the block returned or raised
Finally(raised) == "closed"

\* pd.read_sql_query raises (pandas.errors.DatabaseError)
DatabaseError == Result("DatabaseError", "Execution failed on sql", "", <<>>, {})

\* population_cache after `for p in CELL_POPULATIONS: SELECT id ...`
PopulationIds(t) ==
  [p \in Pops |-> (CHOOSE r \in t.cell_population : r.name = p).id]

(***************************************************************************)
(* load_csv_into_db                                                        *)
(***************************************************************************)
\* what every call of load_csv_into_db starts from
LoadCalled ==
  /\ pc = "idle"
  /\ loads < MaxLoads
  /\ loads' = loads + 1
  /\ dbAtCall' = db
  /\ row' = NoRow
  /\ row_count' = 0
  /\ project_cache' = EmptyCache
  /\ subject_cache' = EmptyCache
  /\ summary_result' = NoResult
  /\ df' = <<>>

\* a version that connects before it looks for the CSV file
LoadCsvMissingFileAfterConnect ==
  /\ LoadCalled
  /\ load_result' = FileNotFound
  /\ connected' = TRUE
  /\ dbExists' = TRUE
  /\ UNCHANGED <<db, conn, tx, pc, rowsLeft, population_cache, rowsRead>>
  /\ UNCHANGED <<filterVars, callVars, statVars>>

\* csv_path does not exist: raised before connect()
LoadCsvMissingFile ==
  /\ LoadCalled
  /\ load_result' = FileNotFound
  /\ connected' = FALSE
  /\ UNCHANGED <<dbExists, db, conn, tx, pc, rowsLeft, population_cache,
                 rowsRead>>
  /\ UNCHANGED <<filterVars, callVars, statVars>>

\* the header check raises: `finally: conn.close()` with the seed rows pending
LoadCsvBadHeader ==
  /\ LoadCalled
  /\ \E h \in Headers :
       /\ ~h.has_header \/ RequiredColumns \ h.fieldnames # {}
       /\ load_result' = IF ~h.has_header THEN NoHeaderError
                         ELSE MissingColumnsError(RequiredColumns \ h.fieldnames)
  /\ connected' = TRUE
  /\ dbExists' = TRUE
  /\ population_cache' = PopulationIds(initialize_schema(db))
  /\ db' = ConnClose(db, initialize_schema(db))
  /\ conn' = Finally(TRUE)
  /\ UNCHANGED <<tx, pc, rowsLeft, rowsRead>>
  /\ UNCHANGED <<filterVars, callVars, statVars>>

\* connect, initialize_schema, header accepted: the row loop is entered
LoadCsvBegin ==
  /\ LoadCalled
  /\ \E h \in Headers, n \in 0..(MaxRows - rowsRead) :
       /\ h.has_header /\ RequiredColumns \ h.fieldnames = {}
       /\ rowsLeft' = n
  /\ connected' = TRUE
  /\ dbExists' = TRUE
  /\ conn' = "open"
  /\ tx' = initialize_schema(db)
  /\ population_cache' = PopulationIds(initialize_schema(db))
  /\ pc' = "rows"
  /\ load_result' = NoResult
  /\ UNCHANGED <<db, rowsRead>>
  /\ UNCHANGED <<filterVars, callVars, statVars>>

\* one row is read and stored in the transaction
LoadCsvRow ==
  /\ pc = "rows"
  /\ rowsLeft > 0
  /\ \E r \in CsvRows :
       LET res == ProcessRow(tx, project_cache, subject_cache,
                             population_cache, r)
       IN /\ res.error = NoResult
          /\ row' = r
          /\ tx' = res.tables
          /\ project_cache' = res.project_cache
          /\ subject_cache' = res.subject_cache
  /\ rowsLeft' = rowsLeft - 1
  /\ row_count' = row_count + 1
  /\ rowsRead' = rowsRead + 1
  /\ UNCHANGED <<dbExists, db, conn, connected, pc, population_cache,
                 load_result, dbAtCall, loads, summary_result, df>>
  /\ UNCHANGED <<filterVars, callVars, statVars>>

\* one row is read and raises: the `with conn:` block rolls back, the
\* connection is closed, the rows after it stay unread
LoadCsvRowRaises ==
  /\ pc = "rows"
  /\ rowsLeft > 0
  /\ \E r \in CsvRows :
       LET res == ProcessRow(tx, project_cache, subject_cache,
                             population_cache, r)
       IN /\ res.error # NoResult
          /\ row' = r
          /\ load_result' = res.error
  /\ db' = ConnExit(db, tx, TRUE)
  /\ tx' = EmptyTables
  /\ conn' = Finally(TRUE)
  /\ pc' = "idle"
  /\ rowsLeft' = rowsLeft - 1
  /\ row_count' = row_count + 1
  /\ rowsRead' = rowsRead + 1
  /\ project_cache' = EmptyCache
  /\ subject_cache' = EmptyCache
  /\ UNCHANGED <<dbExists, connected, population_cache, dbAtCall, loads,
                 summary_result, df>>
  /\ UNCHANGED <<filterVars, callVars, statVars>>

\* the reader is exhausted: the `with conn:` block commits
LoadCsvCommit ==
  /\ pc = "rows"
  /\ rowsLeft = 0
  /\ db' = ConnExit(db, tx, FALSE)
  /\ tx' = EmptyTables
  /\ conn' = Finally(FALSE)
  /\ pc' = "idle"
  /\ load_result' = Returned
  /\ row' = NoRow
  /\ project_cache' = EmptyCache
  /\ subject_cache' = EmptyCache
  /\ UNCHANGED <<dbExists, connected, rowsLeft, row_count, population_cache,
                 dbAtCall, loads, rowsRead, summary_result, df>>
  /\ UNCHANGED <<filterVars, callVars, statVars>>

(***************************************************************************)
(* The summary loaders.                                                    *)
(***************************************************************************)
\* db_path does not exist: raised before sqlite3.connect()
LoadSummaryMissingDb ==
  /\ pc = "idle"
  /\ ~dbExists
  /\ summary_result' = FileNotFound
  /\ df' = <<>>
  /\ connected' = FALSE
  /\ UNCHANGED <<dbExists, db, conn, tx, pc, rowsLeft, row_count, row,
                 project_cache, subject_cache, population_cache, load_result,
                 dbAtCall, loads, rowsRead>>
  /\ UNCHANGED <<filterVars, callVars, statVars>>

\* db_summary.load_summary_with_sample_metadata_from_db
LoadSummaryWithMetadata ==
  /\ pc = "idle"
  /\ dbExists
  /\ summary_result' = Returned
  /\ df' = OrderBy(SummaryWithMetadataRows(db))
  /\ connected' = TRUE
  /\ conn' = Finally(FALSE)
  /\ UNCHANGED <<dbExists, db, tx, pc, rowsLeft, row_count, row,
                 project_cache, subject_cache, population_cache, load_result,
                 dbAtCall, loads, rowsRead>>
  /\ UNCHANGED <<filterVars, callVars, statVars>>

\* streamlit_app.load_summary_from_db
LoadSummaryFromDb ==
  /\ pc = "idle"
  /\ dbExists
  /\ summary_result' = Returned
  /\ df' = OrderBy(SummaryFromDbRows(db))
  /\ connected' = TRUE
  /\ conn' = Finally(FALSE)
  /\ UNCHANGED <<dbExists, db, tx, pc, rowsLeft, row_count, row,
                 project_cache, subject_cache, population_cache, load_result,
                 dbAtCall, loads, rowsRead>>
  /\ UNCHANGED <<filterVars, callVars, statVars>>

\* either summary loader: the query raises inside the try block
LoadSummaryQueryRaises ==
  /\ pc = "idle"
  /\ dbExists
  /\ summary_result' = DatabaseError
  /\ df' = <<>>
  /\ connected' = TRUE
  /\ conn' = Finally(TRUE)
  /\ UNCHANGED <<dbExists, db, tx, pc, rowsLeft, row_count, row,
                 project_cache, subject_cache, population_cache, load_result,
                 dbAtCall, loads, rowsRead>>
  /\ UNCHANGED <<filterVars, callVars, statVars>>

NextLoad ==
  \/ LoadCsvMissingFile
  \/ LoadCsvBadHeader
  \/ LoadCsvBegin
  \/ LoadCsvRow
  \/ LoadCsvRowRaises
  \/ LoadCsvCommit
  \/ LoadSummaryMissingDb
  \/ LoadSummaryWithMetadata
  \/ LoadSummaryFromDb
  \/ LoadSummaryQueryRaises

(***************************************************************************)
(* Part 2: the group filter, response_plot.apply_filters.                  *)
(*                                                                         *)
(* DataFrames are objects on a heap: a reference is an object id, and      *)
(* heap[id] is the object's sequence of rows.  df.copy() and boolean       *)
(* indexing out[mask] each build a new object.                             *)
(***************************************************************************)
\* rows of the table passed to apply_filters
MaxTableRows == 2

FilterColumns ==
  <<"treatment", "sample_type", "time_from_treatment_start", "sex", "age",
    "project">>

FilterColumnSet == {FilterColumns[i] : i \in 1..Len(FilterColumns)}

\* the values a column of the summary table may hold
ColumnValues ==
  [c \in FilterColumnSet |->
     CASE c = "treatment" -> {"A", "B"}
       [] c = "sample_type" -> {"PBMC", "TIL"}
       [] c = "time_from_treatment_start" -> {0}
       [] c = "sex" -> {"F"}
       [] c = "age" -> {34}
       [] c = "project" -> {"P1"}]

SummaryRowValues ==
  [treatment : ColumnValues["treatment"],
   sample_type : ColumnValues["sample_type"],
   time_from_treatment_start : ColumnValues["time_from_treatment_start"],
   sex : ColumnValues["sex"], age : ColumnValues["age"],
   project : ColumnValues["project"]]

\* a table: rows labelled by their index 0..n-1, with a `derived` column the
\* caller may fill in later
Labelled(rs) ==
  [i \in 1..Len(rs) |-> [index |-> i - 1, derived |-> "", values |-> rs[i]]]

InputTables ==
  {Labelled(rs) : rs \in UNION {[1..n -> SummaryRowValues] : n \in 0..MaxTableRows}}

\* the selected_... arguments of a call
Selections ==
  [treatment : SUBSET {"A", "B"},
   sample_type : SUBSET {"PBMC", "TIL"},
   time_from_treatment_start : {{}, {0}},
   sex : {{}, {"F"}, {"M"}},
   age : {{}, {34}, {45}},
   project : {{}, {"P1"}}]

NoSelection == [c \in FilterColumnSet |-> {}]

\* allocation of a new DataFrame object
NewRef(h) == SetMax(DOMAIN h) + 1

Alloc(h, table) == [heap |-> (NewRef(h) :> table) @@ h, ref |-> NewRef(h)]

\* `out = df`: no copy is made
CopyAlias(h, ref) == [heap |-> h, ref |-> ref]

\* df.copy()
Copy(h, ref) == Alloc(h, h[ref])

\* series.isin(selected) as a test on one row
Isin(r, column, selected) == r.values[column] \in selected

\* a filter step that does not test for an empty selection
KeepAlways(h, ref, column, selected) ==
  Alloc(h, SelectSeq(h[ref], LAMBDA r : Isin(r, column, selected)))

\* `if selected: out = out[out[column].isin(selected)]`
Keep(h, ref, column, selected) ==
  IF selected # {}
    THEN Alloc(h, SelectSeq(h[ref], LAMBDA r : Isin(r, column, selected)))
    ELSE [heap |-> h, ref |-> ref]

\* every step filters the input table instead of the running result
RECURSIVE KeepAllFromInput(_, _, _, _)
KeepAllFromInput(h, ref, columns, sel) ==
  IF columns = <<>> THEN [heap |-> h, ref |-> ref]
  ELSE LET step == Keep(h, IF sel[Head(columns)] # {} THEN SetMin(DOMAIN h) ELSE ref,
                        Head(columns), sel[Head(columns)])
       IN KeepAllFromInput(step.heap, step.ref, Tail(columns), sel)

\* the filter steps of apply_filters, in the order of the code
RECURSIVE KeepAll(_, _, _, _)
KeepAll(h, ref, columns, sel) ==
  IF columns = <<>> THEN [heap |-> h, ref |-> ref]
  ELSE LET step == Keep(h, ref, Head(columns), sel[Head(columns)])
       IN KeepAll(step.heap, step.ref, Tail(columns), sel)

\* apply_filters(df, selected_...): the heap after the call and the reference
\* returned
apply_filters(h, table, sel) ==
  LET out == Copy(h, table)
  IN KeepAll(out.heap, out.ref, FilterColumns, sel)

\* objects no longer referenced are collected
Collect(h, refs) == [id \in DOMAIN h \cap refs |-> h[id]]

\* the loader's specification does not filter
InitNoFilter ==
  /\ heap = (1 :> <<>>)
  /\ df_ref = 1
  /\ out_ref = 0
  /\ selection = NoSelection
  /\ df_before = <<>>
  /\ fpc = "ready"

InitFilter ==
  /\ heap \in {(1 :> t) : t \in InputTables}
  /\ df_ref = 1
  /\ out_ref = 0
  /\ selection = NoSelection
  /\ df_before = heap[1]
  /\ fpc = "ready"

\* a call of apply_filters on the summary table
ApplyFilters ==
  /\ fpc = "ready"
  /\ \E sel \in Selections :
       LET res == apply_filters(heap, df_ref, sel)
       IN /\ selection' = sel
          /\ heap' = Collect(res.heap, {df_ref, res.ref})
          /\ out_ref' = res.ref
  /\ fpc' = "returned"
  /\ UNCHANGED <<df_ref, df_before>>
  /\ UNCHANGED <<loadVars, callVars, statVars>>

\* the caller writes a derived column into the table it got back
MutateResult ==
  /\ fpc = "returned"
  /\ heap' = [heap EXCEPT ![out_ref] =
                [i \in 1..Len(@) |-> [@[i] EXCEPT !.derived = "set"]]]
  /\ fpc' = "mutated"
  /\ UNCHANGED <<df_ref, out_ref, selection, df_before>>
  /\ UNCHANGED <<loadVars, callVars, statVars>>

NextFilter ==
  \/ ApplyFilters
  \/ MutateResult

(***************************************************************************)
(* apply_filters called by keyword.  The parameters after `*` are          *)
(* keyword-only and have no defaults: Python binds the call before the     *)
(* body runs and raises TypeError for a keyword that is no parameter or    *)
(* for a parameter that is not passed.                                     *)
(***************************************************************************)
\* the keyword-only parameters of apply_filters and the column each filters
FilterParameters ==
  [selected_treatments |-> "treatment",
   selected_sample_types |-> "sample_type",
   selected_time_from_treatment_start |-> "time_from_treatment_start",
   selected_sexes |-> "sex",
   selected_ages |-> "age",
   selected_projects |-> "project"]

UnexpectedKeyword ==
  Result("TypeError", "got an unexpected keyword argument", "", <<>>, {})

MissingKeyword ==
  Result("TypeError", "missing required keyword-only arguments", "", <<>>, {})

\* binding of the keyword arguments to the parameters
BindKeywords(kw) ==
  IF DOMAIN kw \ DOMAIN FilterParameters # {}
    THEN [error |-> UnexpectedKeyword, sel |-> NoSelection]
  ELSE IF DOMAIN FilterParameters \ DOMAIN kw # {}
    THEN [error |-> MissingKeyword, sel |-> NoSelection]
  ELSE [error |-> NoResult,
        sel |-> [c \in FilterColumnSet |->
                   kw[CHOOSE q \in DOMAIN FilterParameters :
                        FilterParameters[q] = c]]]

\* the summary table with its condition and response columns
KeywordRowValues ==
  [treatment : {"A", "B"}, sample_type : {"PBMC"},
   time_from_treatment_start : {0}, sex : {"F"}, age : {34},
   project : {"P1"}, condition : {"healthy", "melanoma"},
   response : {"R", "NR"}]

KeywordTables ==
  {Labelled(rs) : rs \in UNION {[1..n -> KeywordRowValues] : n \in 0..MaxTableRows}}

\* the calls of the callers: with the parameters of the signature, and with
\* selected_condition and selected_responses in place of
\* selected_time_from_treatment_start
SignatureCalls ==
  [selected_treatments : {{}, {"A"}}, selected_sample_types : {{}, {"PBMC"}},
   selected_time_from_treatment_start : {{}}, selected_sexes : {{}},
   selected_ages : {{}}, selected_projects : {{}}]

ConditionResponseCalls ==
  [selected_treatments : {{}}, selected_sample_types : {{}},
   selected_condition : {{}, {"healthy"}}, selected_sexes : {{}},
   selected_ages : {{}}, selected_projects : {{}},
   selected_responses : {{}, {"R"}}]

KeywordCalls == SignatureCalls \cup ConditionResponseCalls

NoKeywords == [q \in {} |-> {}]

InitNoCall ==
  /\ kwargs = NoKeywords
  /\ filter_error = NoResult

InitKeywords ==
  /\ heap \in {(1 :> t) : t \in KeywordTables}
  /\ df_ref = 1
  /\ out_ref = 0
  /\ selection = NoSelection
  /\ df_before = heap[1]
  /\ fpc = "ready"
  /\ InitNoCall

\* apply_filters(df, **kwargs)
ApplyFiltersKeywords ==
  /\ fpc = "ready"
  /\ \E kw \in KeywordCalls :
       LET bound == BindKeywords(kw)
           res == apply_filters(heap, df_ref, bound.sel)
       IN /\ kwargs' = kw
          /\ filter_error' = bound.error
          /\ IF bound.error = NoResult
               THEN /\ selection' = bound.sel
                    /\ heap' = Collect(res.heap, {df_ref, res.ref})
                    /\ out_ref' = res.ref
                    /\ fpc' = "returned"
               ELSE /\ fpc' = "raised"
                    /\ UNCHANGED <<selection, heap, out_ref>>
  /\ UNCHANGED <<df_ref, df_before>>
  /\ UNCHANGED <<loadVars, statVars>>

NextKeywords ==
  \/ ApplyFiltersKeywords
  \/ MutateResult

(***************************************************************************)
(* Part 3: the statistics of streamlit_app.main.                           *)
(*                                                                         *)
(* numpy computes in binary floating point (float64), rounding every       *)
(* operation to nearest, ties to even.  The model keeps the rounding and   *)
(* shortens the significand to MantissaBits bits (float64 has 53); the     *)
(* exponent is unbounded.  A float is the rational <<n, d>> in lowest      *)
(* terms that it stands for.                                               *)
(***************************************************************************)
\* significand bits of a float: enough for the sums of three percentages
\* below 128 to be exact
MantissaBits == 7
\* length of the list passed to _bh_adjust
MaxPValues == 3

RECURSIVE Pow2(_)
Pow2(k) == IF k = 0 THEN 1 ELSE 2 * Pow2(k - 1)

Abs(x) == IF x < 0 THEN -x ELSE x

RECURSIVE GCD(_, _)
GCD(x, y) == IF y = 0 THEN x ELSE GCD(y, x % y)

\* n/d in lowest terms, d # 0
Rational(n, d) ==
  LET g == GCD(Abs(n), Abs(d))
      sign == IF d < 0 THEN -1 ELSE 1
  IN <<(sign * n) \div g, (sign * d) \div g>>

\* rounding of n/d > 0 to a float: scale into [2^(bits-1), 2^bits), round the
\* quotient to the nearest integer, ties to even, and scale back
RECURSIVE RoundPositive(_, _)
RoundPositive(n, d) ==
  IF n < Pow2(MantissaBits - 1) * d
    THEN LET r == RoundPositive(2 * n, d) IN Rational(r[1], 2 * r[2])
  ELSE IF n >= Pow2(MantissaBits) * d
    THEN LET r == RoundPositive(n, 2 * d) IN Rational(2 * r[1], r[2])
  ELSE LET q == n \div d
           rem == n % d
           up == 2 * rem > d \/ (2 * rem = d /\ q % 2 = 1)
       IN <<IF up THEN q + 1 ELSE q, 1>>

\* the float nearest to n/d
Float(n, d) ==
  IF n = 0 THEN <<0, 1>>
  ELSE LET r == RoundPositive(Abs(n), Abs(d))
       IN IF (n < 0) = (d < 0) THEN r ELSE <<-r[1], r[2]>>

\* float(k) of an integer
FromInt(k) == Float(k, 1)

Zero == <<0, 1>>

One == <<1, 1>>

FMul(x, y) == Float(x[1] * y[1], x[2] * y[2])

FDiv(x, y) == Float(x[1] * y[2], x[2] * y[1])

FAdd(x, y) == Float(x[1] * y[2] + y[1] * x[2], x[2] * y[2])

FSub(x, y) == Float(x[1] * y[2] - y[1] * x[2], x[2] * y[2])

FAbs(x) == <<Abs(x[1]), x[2]>>

FLess(x, y) == x[1] * y[2] < y[1] * x[2]

FLessEq(x, y) == x[1] * y[2] <= y[1] * x[2]

FMin(x, y) == IF FLess(y, x) THEN y ELSE x

FMax(x, y) == IF FLess(x, y) THEN y ELSE x

\* np.clip(x, lo, hi)
Clip(x, lo, hi) == FMin(FMax(x, lo), hi)

ReverseSeq(s) == [k \in 1..Len(s) |-> s[Len(s) + 1 - k]]

\* np.minimum.accumulate(s)
RECURSIVE MinimumAccumulate(_)
MinimumAccumulate(s) ==
  IF Len(s) <= 1 THEN s
  ELSE LET front == MinimumAccumulate(SubSeq(s, 1, Len(s) - 1))
       IN Append(front, FMin(front[Len(front)], s[Len(s)]))

\* np.argsort(p): an order of the indices by ascending value; the order of
\* equal values is the sort algorithm's choice
ArgSorts(p) ==
  {o \in [1..Len(p) -> 1..Len(p)] :
     /\ \A j, k \in 1..Len(p) : j # k => o[j] # o[k]
     /\ \A k \in 1..(Len(p) - 1) : FLessEq(p[o[k]], p[o[k + 1]])}

(***************************************************************************)
(* _bh_adjust, the Benjamini-Hochberg adjustment.                          *)
(***************************************************************************)
\* np.array(p_values, dtype=float)[order]
Ranked(p, order) == [k \in 1..Len(p) |-> p[order[k]]]

\* the rank is left out: ranked * m
ScaledNoRank(ranked) ==
  [k \in 1..Len(ranked) |-> FMul(ranked[k], FromInt(Len(ranked)))]

\* ranked * m / (np.arange(m) + 1)
Scaled(ranked) ==
  [k \in 1..Len(ranked) |->
     FDiv(FMul(ranked[k], FromInt(Len(ranked))), FromInt(k))]

\* the running minimum is left out
RunningMinimumSkipped(scaled) == scaled

\* the running minimum is taken from the smallest rank up
RunningMinimumForward(scaled) == MinimumAccumulate(scaled)

\* np.minimum.accumulate(adjusted[::-1])[::-1]
RunningMinimum(scaled) == ReverseSeq(MinimumAccumulate(ReverseSeq(scaled)))

\* np.clip(adjusted, 0.0, 1.0)
Clipped(adjusted) == [k \in 1..Len(adjusted) |-> Clip(adjusted[k], Zero, One)]

\* the sorted values are returned as they are
UnsortSkipped(adjusted, order) == adjusted

\* out = np.empty(m); out[order] = adjusted
Unsort(adjusted, order) ==
  [i \in 1..Len(adjusted) |->
     adjusted[CHOOSE k \in 1..Len(adjusted) : order[k] = i]]

\* _bh_adjust(p_values) with order = np.argsort(p_values): its locals at the
\* return statement
_bh_adjust(p, order) ==
  LET ranked == Ranked(p, order)
      scaled == Scaled(ranked)
      accumulated == RunningMinimum(scaled)
      adjusted == Clipped(accumulated)
  IN [m |-> Len(p), order |-> order, ranked |-> ranked, scaled |-> scaled,
      accumulated |-> accumulated, adjusted |-> adjusted,
      out |-> Unsort(adjusted, order)]

\* the raw p-values a caller may pass
PValueGrid ==
  {Zero, Float(1, 4), Float(1, 2), Float(63, 64), Float(127, 128), One}

\* the float literals 0.01, 0.02, 0.03, 0.5 and 0.2, 0.01, 0.05
KnownVector == <<Float(1, 100), Float(2, 100), Float(3, 100), Float(1, 2)>>

ReorderedVector == <<Float(2, 10), Float(1, 100), Float(5, 100)>>

PValueLists ==
  UNION {[1..n -> PValueGrid] : n \in 0..MaxPValues}
    \cup {KnownVector, ReorderedVector}

InitBH ==
  /\ p_values \in PValueLists
  /\ bh = <<>>
  /\ bh_pc = "ready"

\* a call of _bh_adjust
BhAdjust ==
  /\ bh_pc = "ready"
  /\ \E order \in ArgSorts(p_values) : bh' = _bh_adjust(p_values, order)
  /\ bh_pc' = "returned"
  /\ UNCHANGED p_values
  /\ UNCHANGED <<loadVars, filterVars, callVars, permVars, mainVars, restVars>>

NextBH == BhAdjust

(***************************************************************************)
(* _two_sided_permutation_pvalue, the permutation test.                    *)
(*                                                                         *)
(* rng = np.random.default_rng(seed) is a deterministic generator: the     *)
(* permutation a shuffle applies is a function of the seed and of what the *)
(* generator has produced since it was seeded.  Which function is left     *)
(* open: `oracle` records the permutation met at each generator state, and *)
(* a generator that comes back to a state applies the recorded one.        *)
(***************************************************************************)
\* the value of n_permutations
MaxPermutations == 2
\* len(a) + len(b) of a call
MaxPooled == 3

\* np.sum of a float array
RECURSIVE Sum(_)
Sum(s) == IF s = <<>> THEN Zero ELSE FAdd(Sum(SubSeq(s, 1, Len(s) - 1)), s[Len(s)])

\* np.mean
Mean(s) == FDiv(Sum(s), FromInt(Len(s)))

\* the difference of the means keeps its sign
ObservedSigned(x, y) == FSub(Mean(x), Mean(y))

\* float(np.abs(np.mean(a) - np.mean(b)))
Observed(x, y) == FAbs(FSub(Mean(x), Mean(y)))

\* np.abs(np.mean(pooled[:n_a]) - np.mean(pooled[n_a:]))
SplitStatistic(arr, n_a) ==
  Observed(SubSeq(arr, 1, n_a), SubSeq(arr, n_a + 1, Len(arr)))

Permute(arr, f) == [k \in 1..Len(arr) |-> arr[f[k]]]

\* the permutations rng.shuffle may apply to arr; of the permutations that
\* give the same array one is taken
ShuffleOutcomes(arr) ==
  LET perms == Permutations(1..Len(arr))
  IN {CHOOSE f \in perms : Permute(arr, f) = arrangement :
        arrangement \in {Permute(arr, f) : f \in perms}}

\* np.sum(diffs >= observed)
CountAtLeast(ds, obs) == Cardinality({i \in 1..Len(ds) : FLessEq(obs, ds[i])})

\* the observed split is not counted: count / n_permutations
PValueNoPlusOne(ds, obs, n) == FDiv(FromInt(CountAtLeast(ds, obs)), FromInt(n))

\* float((np.sum(diffs >= observed) + 1) / (n_permutations + 1))
PValue(ds, obs, n) == FDiv(FromInt(CountAtLeast(ds, obs) + 1), FromInt(n + 1))

\* a generator that is handed on instead of being seeded afresh
FreshGeneratorKept(state) == state

\* np.random.default_rng(seed): nothing shuffled yet
FreshGenerator(state) == <<>>

NoOracle == [key \in {} |-> <<>>]

\* the percentages of a group
PercentageGrid == {FromInt(0), FromInt(1)}

Samples(n) == [1..n -> PercentageGrid]

NoCall ==
  /\ a = <<>>
  /\ b = <<>>
  /\ observed = Zero
  /\ pooled = <<>>
  /\ diffs = <<>>
  /\ shuffled = <<>>
  /\ permutations = <<>>
  /\ p_value = Zero
  /\ perm_pc = "idle"
  /\ calls = <<>>

InitNoPerm ==
  /\ n_permutations = 0
  /\ rng = <<>>
  /\ oracle = NoOracle
  /\ NoCall

InitPerm ==
  /\ n_permutations \in 1..MaxPermutations
  /\ rng = FreshGenerator(<<>>)
  /\ oracle = NoOracle
  /\ \E n_a, n_b \in 1..MaxPooled :
       /\ n_a + n_b <= MaxPooled
       /\ a \in Samples(n_a)
       /\ b \in Samples(n_b)
  /\ observed = Zero
  /\ pooled = <<>>
  /\ diffs = <<>>
  /\ shuffled = <<>>
  /\ permutations = <<>>
  /\ p_value = Zero
  /\ perm_pc = "idle"
  /\ calls = <<>>

\* lines 286-292: the locals of a call before the loop
EnterCall(x, y) ==
  /\ a' = x
  /\ b' = y
  /\ observed' = Observed(x, y)
  /\ pooled' = x \o y
  /\ diffs' = <<>>
  /\ shuffled' = <<>>
  /\ permutations' = <<>>
  /\ perm_pc' = "loop"

\* _two_sided_permutation_pvalue(a, b) is called
PermCall ==
  /\ perm_pc = "idle"
  /\ calls = <<>>
  /\ EnterCall(a, b)
  /\ UNCHANGED <<n_permutations, rng, oracle, p_value, calls>>
  /\ UNCHANGED <<loadVars, filterVars, callVars, bhVars, mainVars, restVars>>

\* one iteration of the loop: rng.shuffle(pooled) and diffs[i]
PermShuffle ==
  /\ perm_pc = "loop"
  /\ Len(diffs) < n_permutations
  /\ LET key == Append(rng, Len(pooled))
     IN \E f \in (IF key \in DOMAIN oracle THEN {oracle[key]}
                                            ELSE ShuffleOutcomes(pooled)) :
          /\ oracle' = (key :> f) @@ oracle
          /\ rng' = key
          /\ pooled' = Permute(pooled, f)
          /\ shuffled' = Append(shuffled, Permute(pooled, f))
          /\ permutations' = Append(permutations, f)
          /\ diffs' = Append(diffs, SplitStatistic(Permute(pooled, f), Len(a)))
  /\ UNCHANGED <<n_permutations, a, b, observed, p_value, perm_pc, calls>>
  /\ UNCHANGED <<loadVars, filterVars, callVars, bhVars, mainVars, restVars>>

\* the return statement
PermReturn ==
  /\ perm_pc = "loop"
  /\ Len(diffs) = n_permutations
  /\ p_value' = PValue(diffs, observed, n_permutations)
  /\ perm_pc' = "returned"
  /\ calls' = Append(calls, [a |-> a, b |-> b, observed |-> observed,
                             diffs |-> diffs, shuffled |-> shuffled,
                             permutations |-> permutations,
                             p_value |-> PValue(diffs, observed, n_permutations)])
  /\ UNCHANGED <<n_permutations, rng, oracle, a, b, observed, pooled, diffs,
                 shuffled, permutations>>
  /\ UNCHANGED <<loadVars, filterVars, callVars, bhVars, mainVars, restVars>>

\* after the first call the caller seeds a generator with the same seed and
\* calls once more, with the same arguments or with the two groups exchanged
PermCallAgain ==
  /\ perm_pc = "returned"
  /\ Len(calls) = 1
  /\ rng' = FreshGenerator(rng)
  /\ \E exchanged \in BOOLEAN :
       IF exchanged THEN EnterCall(b, a) ELSE EnterCall(a, b)
  /\ UNCHANGED <<n_permutations, oracle, p_value, calls>>
  /\ UNCHANGED <<loadVars, filterVars, callVars, bhVars, mainVars, restVars>>

NextPerm ==
  \/ PermCall
  \/ PermShuffle
  \/ PermReturn
  \/ PermCallAgain

(***************************************************************************)
(* main: the statistics under "Significant differences".                   *)
(***************************************************************************)
\* the samples of one response group of a population
MaxGroup == 2
\* the value of the slider in a run of main
MaxSlider == 1

GroupRows(pop, group, values) ==
  [k \in 1..Len(values) |->
     [population |-> pop, response_group |-> group, percentage |-> values[k]]]

Constant(n, v) == [k \in 1..n |-> v]

\* plot_df after dropna(subset=["response_group"]): b_cell has as many
\* responders as non-responders and the same percentage in every sample,
\* nk_cell has percentage 1 in responders and 0 in non-responders
PlotFrames ==
  {GroupRows("b_cell", "Responder", Constant(sizes[1], FromInt(1)))
     \o GroupRows("b_cell", "Non-responder", Constant(sizes[1], FromInt(1)))
     \o GroupRows("nk_cell", "Responder", Constant(sizes[2], FromInt(1)))
     \o GroupRows("nk_cell", "Non-responder", Constant(sizes[3], FromInt(0))) :
   sizes \in [1..3 -> 0..MaxGroup]}

\* plot_df["population"].dropna().astype(str).sort_values().unique().tolist()
RECURSIVE SortedUnique(_)
SortedUnique(names) ==
  IF names = {} THEN <<>>
  ELSE LET first == CHOOSE w \in names : \A v \in names : WordRank(w) <= WordRank(v)
       IN <<first>> \o SortedUnique(names \ {first})

RECURSIVE Where(_, _, _)
\* sub.loc[sub["response_group"] == group, "percentage"].to_numpy() of
\* sub = frame[frame["population"].astype(str) == str(pop)]
Where(frame, pop, group) ==
  IF frame = <<>> THEN <<>>
  ELSE LET r == Head(frame)
       IN (IF r.population = pop /\ r.response_group = group
             THEN <<r.percentage>> ELSE <<>>)
          \o Where(Tail(frame), pop, group)

\* np.median
Median(s) ==
  LET sorted == Ranked(s, CHOOSE o \in ArgSorts(s) : TRUE)
      half == Len(s) \div 2
  IN IF Len(s) % 2 = 1 THEN sorted[half + 1]
     ELSE FDiv(FAdd(sorted[half], sorted[half + 1]), FromInt(2))

\* one value in each group is taken to be enough
TooFewNone(x, y) == Len(x) < 1 \/ Len(y) < 1

\* a.size < 2 or b.size < 2
TooFew(x, y) == Len(x) < 2 \/ Len(y) < 2

\* the dict appended to rows
ResultRow(pop, x, y, p) ==
  [population |-> pop,
   n_responders |-> Len(x),
   n_non_responders |-> Len(y),
   mean_resp |-> Mean(x),
   mean_non_resp |-> Mean(y),
   median_resp |-> Median(x),
   median_non_resp |-> Median(y),
   delta_mean |-> FSub(Mean(x), Mean(y)),
   delta_median |-> FSub(Median(x), Median(y)),
   p_value |-> p]

\* the order of sort_values(["p_adj_bh", "p_value", "population"])
RowBefore(r, q) ==
  \/ FLess(r.p_adj_bh, q.p_adj_bh)
  \/ /\ r.p_adj_bh = q.p_adj_bh
     /\ \/ FLess(r.p_value, q.p_value)
        \/ r.p_value = q.p_value /\ WordRank(r.population) < WordRank(q.population)

\* the rows are left in the order of the loop
SortValuesSkipped(table) == table

\* stats_df.sort_values(...): the rows of the table by ascending key
SortValues(table) ==
  LET n == Len(table)
      place(k) == 1 + Cardinality({j \in 1..n : j # k /\ RowBefore(table[j], table[k])})
  IN [position \in 1..n |-> table[CHOOSE k \in 1..n : place(k) = position]]

\* pd.DataFrame(rows) with the column p_adj_bh
WithAdjusted(rs, adjusted) ==
  [k \in 1..Len(rs) |->
     [population |-> rs[k].population,
      n_responders |-> rs[k].n_responders,
      n_non_responders |-> rs[k].n_non_responders,
      mean_resp |-> rs[k].mean_resp,
      mean_non_resp |-> rs[k].mean_non_resp,
      median_resp |-> rs[k].median_resp,
      median_non_resp |-> rs[k].median_non_resp,
      delta_mean |-> rs[k].delta_mean,
      delta_median |-> rs[k].delta_median,
      p_value |-> rs[k].p_value,
      p_adj_bh |-> adjusted[k]]]

PValuesOf(rs) == [k \in 1..Len(rs) |-> rs[k].p_value]

\* what a run shows: the raw p-values in loop order and the table
RunRecord(rs, table) == [p_values |-> PValuesOf(rs), stats_df |-> table]

InitNoMain ==
  /\ plot_df = <<>>
  /\ populations = <<>>
  /\ pop_index = 0
  /\ rows = <<>>
  /\ stats_df = <<>>
  /\ main_pc = "done"
  /\ runs = <<>>

InitMain ==
  /\ plot_df \in PlotFrames
  /\ populations = <<>>
  /\ pop_index = 0
  /\ rows = <<>>
  /\ stats_df = <<>>
  /\ main_pc = "start"
  /\ runs = <<>>

InitSlider ==
  /\ n_permutations \in 1..MaxSlider
  /\ rng = FreshGenerator(<<>>)
  /\ oracle = NoOracle
  /\ NoCall

\* lines 234-236: nothing to plot, main returns before the statistics
MainEmpty ==
  /\ main_pc = "start"
  /\ plot_df = <<>>
  /\ main_pc' = "done"
  /\ stats_df' = <<>>
  /\ runs' = Append(runs, RunRecord(<<>>, <<>>))
  /\ UNCHANGED <<plot_df, populations, pop_index, rows>>
  /\ UNCHANGED <<loadVars, filterVars, callVars, bhVars, permVars, restVars>>

\* lines 238-240, 275 and 310: the populations, the generator, the empty rows
MainStart ==
  /\ main_pc = "start"
  /\ plot_df # <<>>
  /\ populations' = SortedUnique({plot_df[k].population : k \in DOMAIN plot_df})
  /\ rng' = FreshGenerator(rng)
  /\ rows' = <<>>
  /\ pop_index' = 1
  /\ main_pc' = "loop"
  /\ UNCHANGED <<plot_df, stats_df, runs>>
  /\ UNCHANGED <<n_permutations, oracle, a, b, observed, pooled, diffs,
                 shuffled, permutations, p_value, perm_pc, calls>>
  /\ UNCHANGED <<loadVars, filterVars, callVars, bhVars, restVars>>

\* lines 311-317: a population with a group of fewer than two is passed over
MainSkip ==
  /\ main_pc = "loop"
  /\ perm_pc = "idle"
  /\ pop_index <= Len(populations)
  /\ LET pop == populations[pop_index]
     IN TooFew(Where(plot_df, pop, "Responder"), Where(plot_df, pop, "Non-responder"))
  /\ pop_index' = pop_index + 1
  /\ UNCHANGED <<plot_df, populations, rows, stats_df, main_pc, runs>>
  /\ UNCHANGED <<loadVars, filterVars, callVars, bhVars, permVars, restVars>>

\* lines 311-319: the permutation test is called for the population
MainTest ==
  /\ main_pc = "loop"
  /\ perm_pc = "idle"
  /\ pop_index <= Len(populations)
  /\ LET pop == populations[pop_index]
         x == Where(plot_df, pop, "Responder")
         y == Where(plot_df, pop, "Non-responder")
     IN /\ ~ TooFew(x, y)
        /\ EnterCall(x, y)
  /\ UNCHANGED <<n_permutations, rng, oracle, p_value, calls>>
  /\ UNCHANGED mainVars
  /\ UNCHANGED <<loadVars, filterVars, callVars, bhVars, restVars>>

\* lines 319-333: the call has returned and the row is appended
MainAppend ==
  /\ main_pc = "loop"
  /\ perm_pc = "returned"
  /\ rows' = Append(rows, ResultRow(populations[pop_index], a, b, p_value))
  /\ pop_index' = pop_index + 1
  /\ perm_pc' = "idle"
  /\ UNCHANGED <<plot_df, populations, stats_df, main_pc, runs>>
  /\ UNCHANGED <<n_permutations, rng, oracle, a, b, observed, pooled, diffs,
                 shuffled, permutations, p_value, calls>>
  /\ UNCHANGED <<loadVars, filterVars, callVars, bhVars, restVars>>

\* lines 335-339: no population was tested, no table is shown
MainNoRows ==
  /\ main_pc = "loop"
  /\ perm_pc = "idle"
  /\ pop_index > Len(populations)
  /\ rows = <<>>
  /\ stats_df' = <<>>
  /\ main_pc' = "done"
  /\ runs' = Append(runs, RunRecord(rows, <<>>))
  /\ UNCHANGED <<plot_df, populations, pop_index, rows>>
  /\ UNCHANGED <<loadVars, filterVars, callVars, bhVars, permVars, restVars>>

\* lines 341-343: the adjusted p-values and the sorted table
MainTable ==
  /\ main_pc = "loop"
  /\ perm_pc = "idle"
  /\ pop_index > Len(populations)
  /\ rows # <<>>
  /\ \E order \in ArgSorts(PValuesOf(rows)) :
       LET table == SortValues(WithAdjusted(rows, _bh_adjust(PValuesOf(rows), order).out))
       IN /\ stats_df' = table
          /\ runs' = Append(runs, RunRecord(rows, table))
  /\ main_pc' = "done"
  /\ UNCHANGED <<plot_df, populations, pop_index, rows>>
  /\ UNCHANGED <<loadVars, filterVars, callVars, bhVars, permVars, restVars>>

\* Streamlit runs main once more on the same data and slider value
MainRerun ==
  /\ main_pc = "done"
  /\ Len(runs) = 1
  /\ main_pc' = "start"
  /\ UNCHANGED <<plot_df, populations, pop_index, rows, stats_df, runs>>
  /\ UNCHANGED <<loadVars, filterVars, callVars, bhVars, permVars, restVars>>

NextStats ==
  \/ MainEmpty
  \/ MainStart
  \/ MainSkip
  \/ MainTest
  \/ PermShuffle
  \/ PermReturn
  \/ MainAppend
  \/ MainNoRows
  \/ MainTable
  \/ MainRerun

(***************************************************************************)
(* One call of the permutation test with many iterations.  diffs is kept   *)
(* as the number of its entries that are >= observed, and pooled up to the *)
(* order of its values: whatever the order before a shuffle, the values    *)
(* that come first after it can be any n_a of them.                        *)
(***************************************************************************)
\* the positions of pooled whose values a shuffle can bring to the front
Splits(n, n_a) == {front \in SUBSET (1..n) : Cardinality(front) = n_a}

RECURSIVE Pick(_, _, _)
\* the values of arr at the positions of `at` from position k on, in order
Pick(arr, at, k) ==
  IF k > Len(arr) THEN <<>>
  ELSE (IF k \in at THEN <<arr[k]>> ELSE <<>>) \o Pick(arr, at, k + 1)

\* a shuffled array whose first n_a values are those at the positions front
FrontFirst(arr, front) == Pick(arr, front, 1) \o Pick(arr, (1..Len(arr)) \ front, 1)

\* diffs[i] >= observed for the shuffle that brings front to the front
ReachesObserved(x, y, front) ==
  FLessEq(Observed(x, y), SplitStatistic(FrontFirst(x \o y, front), Len(x)))

\* responder and non-responder percentages of the population
ExampleResponders == <<FromInt(10), FromInt(12), FromInt(11)>>

ExampleNonResponders == <<FromInt(40), FromInt(42), FromInt(41)>>

\* whether a shuffle of the example can count, and whether it can fail to
ExampleOutcomes ==
  {ReachesObserved(ExampleResponders, ExampleNonResponders, front) :
     front \in Splits(6, 3)}

\* float((count + 1) / (n_permutations + 1))
CountPValue(count, n) == FDiv(FromInt(count + 1), FromInt(n + 1))

\* sig = stats_df[stats_df["p_adj_bh"] <= 0.05]
Significant(table) == SelectSeq(table, LAMBDA r : FLessEq(r.p_adj_bh, Float(5, 100)))

InitExample ==
  /\ n_permutations = 1000
  /\ rng = FreshGenerator(<<>>)
  /\ oracle = NoOracle
  /\ a = ExampleResponders
  /\ b = ExampleNonResponders
  /\ observed = Zero
  /\ pooled = <<>>
  /\ diffs = <<>>
  /\ shuffled = <<>>
  /\ permutations = <<>>
  /\ p_value = Zero
  /\ perm_pc = "idle"
  /\ calls = <<>>
  /\ iterations = 0
  /\ extreme = 0
  /\ plot_df = GroupRows("nk_cell", "Responder", ExampleResponders)
                 \o GroupRows("nk_cell", "Non-responder", ExampleNonResponders)
  /\ populations = <<"nk_cell">>
  /\ pop_index = 1
  /\ rows = <<>>
  /\ stats_df = <<>>
  /\ main_pc = "loop"
  /\ runs = <<>>

\* lines 286-292 of the call for the population
ExampleCall ==
  /\ main_pc = "loop"
  /\ perm_pc = "idle"
  /\ pop_index = 1
  /\ observed' = Observed(a, b)
  /\ pooled' = a \o b
  /\ iterations' = 0
  /\ extreme' = 0
  /\ perm_pc' = "loop"
  /\ UNCHANGED <<n_permutations, rng, oracle, a, b, diffs, shuffled, permutations,
                 p_value, calls>>
  /\ UNCHANGED <<loadVars, filterVars, callVars, bhVars, mainVars>>
  /\ UNCHANGED <<analyzeVars, prepareVars, labelVars, fileVars>>

\* lines 293-295: one shuffle, whose statistic reaches observed or does not
ExampleShuffle ==
  /\ perm_pc = "loop"
  /\ iterations < n_permutations
  /\ \E reached \in ExampleOutcomes :
       extreme' = extreme + (IF reached THEN 1 ELSE 0)
  /\ iterations' = iterations + 1
  /\ UNCHANGED <<loadVars, filterVars, callVars, bhVars, permVars, mainVars>>
  /\ UNCHANGED <<analyzeVars, prepareVars, labelVars, fileVars>>

\* line 297 and lines 319-333: the p-value and the row of the population
ExampleReturn ==
  /\ perm_pc = "loop"
  /\ iterations = n_permutations
  /\ p_value' = CountPValue(extreme, n_permutations)
  /\ perm_pc' = "idle"
  /\ rows' = Append(rows, ResultRow(populations[pop_index], a, b,
                                    CountPValue(extreme, n_permutations)))
  /\ pop_index' = pop_index + 1
  /\ UNCHANGED <<n_permutations, rng, oracle, a, b, observed, pooled, diffs,
                 shuffled, permutations, calls>>
  /\ UNCHANGED <<plot_df, populations, stats_df, main_pc, runs>>
  /\ UNCHANGED <<loadVars, filterVars, callVars, bhVars, exampleVars>>
  /\ UNCHANGED <<analyzeVars, prepareVars, labelVars, fileVars>>

NextExample ==
  \/ ExampleCall
  \/ ExampleShuffle
  \/ ExampleReturn
  \/ MainTable

(***************************************************************************)
(* Part 4: analyze_all_populations and prepare_response_plot_df.           *)
(***************************************************************************)
\* how model.fit(reml=False) of statsmodels can end for a population: it
\* returns, it returns after a ConvergenceWarning, or it raises
FitOutcomes ==
  [kind : {"ok", "warns", "raises"}, p_value : {Float(1, 4), One}]

FitError == Result("LinAlgError", "Singular matrix", "", <<>>, {})

EmptyResultsError == Result("KeyError", "p_value", "", <<>>, {})

\* the populations of the table passed in
CategoryLists == {SortedUnique(names) : names \in SUBSET {"b_cell", "monocyte", "nk_cell"}}

\* the dict fit_mixed_effects_model returns, with its population
FitRow(population, outcome) == [population |-> population, p_value |-> outcome.p_value]

\* results_df with the column p_adj of multipletests(..., method="fdr_bh")[1]
WithPAdj(rs, adjusted) ==
  [k \in 1..Len(rs) |->
     [population |-> rs[k].population, p_value |-> rs[k].p_value, p_adj |-> adjusted[k]]]

InitAnalysis ==
  /\ categories \in CategoryLists
  /\ fit_index = 0
  /\ fit_log = <<>>
  /\ results = <<>>
  /\ results_df = <<>>
  /\ analyze_result = NoResult
  /\ analyze_pc = "ready"

\* lines 83-87: the table is formatted and transformed, results = []
AnalyzeStart ==
  /\ analyze_pc = "ready"
  /\ analyze_pc' = "loop"
  /\ fit_index' = 1
  /\ results' = <<>>
  /\ UNCHANGED <<categories, fit_log, results_df, analyze_result>>
  /\ UNCHANGED <<loadVars, filterVars, callVars, bhVars, permVars, mainVars>>
  /\ UNCHANGED <<exampleVars, prepareVars, labelVars, fileVars>>

\* lines 88-91: the fit of the population returns and its dict is appended
AnalyzeFit ==
  /\ analyze_pc = "loop"
  /\ fit_index <= Len(categories)
  /\ \E outcome \in FitOutcomes :
       /\ outcome.kind # "raises"
       /\ fit_log' = Append(fit_log, outcome)
       /\ results' = Append(results, FitRow(categories[fit_index], outcome))
  /\ fit_index' = fit_index + 1
  /\ UNCHANGED <<categories, results_df, analyze_result, analyze_pc>>
  /\ UNCHANGED <<loadVars, filterVars, callVars, bhVars, permVars, mainVars>>
  /\ UNCHANGED <<exampleVars, prepareVars, labelVars, fileVars>>

\* line 89: the fit raises; nothing in fit_mixed_effects_model or in
\* analyze_all_populations catches it
AnalyzeFitRaises ==
  /\ analyze_pc = "loop"
  /\ fit_index <= Len(categories)
  /\ \E outcome \in FitOutcomes :
       /\ outcome.kind = "raises"
       /\ fit_log' = Append(fit_log, outcome)
  /\ analyze_result' = FitError
  /\ analyze_pc' = "raised"
  /\ UNCHANGED <<categories, fit_index, results, results_df>>
  /\ UNCHANGED <<loadVars, filterVars, callVars, bhVars, permVars, mainVars>>
  /\ UNCHANGED <<exampleVars, prepareVars, labelVars, fileVars>>

\* lines 92-98 with no population: pd.DataFrame([]) has no column p_value
AnalyzeEmpty ==
  /\ analyze_pc = "loop"
  /\ fit_index > Len(categories)
  /\ results = <<>>
  /\ analyze_result' = EmptyResultsError
  /\ analyze_pc' = "raised"
  /\ UNCHANGED <<categories, fit_index, fit_log, results, results_df>>
  /\ UNCHANGED <<loadVars, filterVars, callVars, bhVars, permVars, mainVars>>
  /\ UNCHANGED <<exampleVars, prepareVars, labelVars, fileVars>>

\* lines 92-100: the adjusted p-values are added and the table returned
AnalyzeReturn ==
  /\ analyze_pc = "loop"
  /\ fit_index > Len(categories)
  /\ results # <<>>
  /\ \E order \in ArgSorts(PValuesOf(results)) :
       results_df' = WithPAdj(results, _bh_adjust(PValuesOf(results), order).out)
  /\ analyze_result' = Returned
  /\ analyze_pc' = "returned"
  /\ UNCHANGED <<categories, fit_index, fit_log, results>>
  /\ UNCHANGED <<loadVars, filterVars, callVars, bhVars, permVars, mainVars>>
  /\ UNCHANGED <<exampleVars, prepareVars, labelVars, fileVars>>

NextAnalyze ==
  \/ AnalyzeStart
  \/ AnalyzeFit
  \/ AnalyzeFitRaises
  \/ AnalyzeEmpty
  \/ AnalyzeReturn

\* line 115: plot_df is read before anything is assigned to it
UnboundLocal ==
  Result("UnboundLocalError", "local variable 'plot_df' referenced before assignment",
         "", <<>>, {})

\* a call of prepare_response_plot_df(summary_meta, selected_...=...)
PrepareResponsePlotDf ==
  /\ prepare_pc = "ready"
  /\ \E sel \in Selections : selection' = sel
  /\ prepare_result' = UnboundLocal
  /\ prepare_pc' = "raised"
  /\ UNCHANGED <<heap, df_ref, out_ref, df_before, fpc>>
  /\ UNCHANGED <<loadVars, callVars, bhVars, permVars, mainVars>>
  /\ UNCHANGED <<exampleVars, analyzeVars, labelVars, fileVars>>

NextPrepare == PrepareResponsePlotDf

(***************************************************************************)
(* main: the response labels.  A label is the sequence of its characters.  *)
(***************************************************************************)
\* a null response
MissingLabel == <<"NaN">>

UpperCase ==
  <<"A", "B", "C", "D", "E", "F", "G", "H", "I", "J", "K", "L", "M",
    "N", "O", "P", "Q", "R", "S", "T", "U", "V", "W", "X", "Y", "Z">>

LowerCase ==
  <<"a", "b", "c", "d", "e", "f", "g", "h", "i", "j", "k", "l", "m",
    "n", "o", "p", "q", "r", "s", "t", "u", "v", "w", "x", "y", "z">>

WhiteSpace == {" ", "\t", "\n"}

\* .fillna("").astype(str)
FillNa(label) == IF label = MissingLabel THEN <<>> ELSE label

RECURSIVE StripLeft(_)
StripLeft(text) ==
  IF text # <<>> /\ Head(text) \in WhiteSpace THEN StripLeft(Tail(text)) ELSE text

RECURSIVE StripRight(_)
StripRight(text) ==
  IF text # <<>> /\ text[Len(text)] \in WhiteSpace
    THEN StripRight(SubSeq(text, 1, Len(text) - 1))
    ELSE text

\* only the white space in front is removed
StrStripLeading(text) == StripLeft(text)

\* .str.strip()
StrStrip(text) == StripRight(StripLeft(text))

\* .str.lower()
StrLower(text) ==
  [k \in 1..Len(text) |->
     IF \E u \in DOMAIN UpperCase : UpperCase[u] = text[k]
       THEN LowerCase[CHOOSE u \in DOMAIN UpperCase : UpperCase[u] = text[k]]
       ELSE text[k]]

\* line 220
RespRaw(label) == StrLower(StrStrip(FillNa(label)))

\* line 224: {"yes", "y", "responder", "responders"}
ResponderLabels ==
  {<<"y", "e", "s">>, <<"y">>,
   <<"r", "e", "s", "p", "o", "n", "d", "e", "r">>,
   <<"r", "e", "s", "p", "o", "n", "d", "e", "r", "s">>}

\* line 228: {"no", "n", "non-responder", "nonresponder", "non-responders",
\* "nonresponders"}
NonResponderLabels ==
  {<<"n", "o">>, <<"n">>,
   <<"n", "o", "n", "-", "r", "e", "s", "p", "o", "n", "d", "e", "r">>,
   <<"n", "o", "n", "r", "e", "s", "p", "o", "n", "d", "e", "r">>,
   <<"n", "o", "n", "-", "r", "e", "s", "p", "o", "n", "d", "e", "r", "s">>,
   <<"n", "o", "n", "r", "e", "s", "p", "o", "n", "d", "e", "r", "s">>}

\* lines 221-231: the column starts as pd.NA, the second assignment is made
\* after the first
ResponseGroup(label) ==
  IF RespRaw(label) \in NonResponderLabels THEN "Non-responder"
  ELSE IF RespRaw(label) \in ResponderLabels THEN "Responder"
  ELSE "NA"

RECURSIVE DropNaGroups(_)
\* lines 221-232: the rows with a response group, in their order
DropNaGroups(frame) ==
  IF frame = <<>> THEN <<>>
  ELSE LET r == Head(frame)
       IN (IF ResponseGroup(r.response) = "NA" THEN <<>>
           ELSE <<[population |-> r.population,
                   response_group |-> ResponseGroup(r.response),
                   percentage |-> r.percentage]>>)
          \o DropNaGroups(Tail(frame))

\* labels as they are entered for responders
ResponderSpellings ==
  {<<"y", "e", "s">>, <<" ", "Y", "e", "s">>, <<"Y">>,
   <<"R", "E", "S", "P", "O", "N", "D", "E", "R", "\n">>,
   <<"r", "e", "s", "p", "o", "n", "d", "e", "r", "s", " ">>}

\* labels as they are entered for non-responders
NonResponderSpellings ==
  {<<"n", "o">>, <<"N", "O", " ">>, <<"\t", "n">>,
   <<"N", "o", "n", "-", "R", "e", "s", "p", "o", "n", "d", "e", "r">>,
   <<"n", "o", "n", "r", "e", "s", "p", "o", "n", "d", "e", "r">>,
   <<"n", "o", "n", "-", "r", "e", "s", "p", "o", "n", "d", "e", "r", "s">>,
   <<" ", "N", "o", "n", "r", "e", "s", "p", "o", "n", "d", "e", "r", "s">>}

\* a null, an empty text and labels that are not in either table
OtherSpellings ==
  {MissingLabel, <<>>, <<" ">>,
   <<"m", "a", "y", "b", "e">>,
   <<"y", "e", " ", "s">>,
   <<"n", "o", "n", " ", "r", "e", "s", "p", "o", "n", "d", "e", "r">>}

RawLabels == ResponderSpellings \cup NonResponderSpellings \cup OtherSpellings

LabelledRow(label, value) ==
  [population |-> "nk_cell", response |-> label, percentage |-> FromInt(value)]

\* five samples of nk_cell: two with one label and 1 percent, two with
\* another label and 0 percent, one with any label and 1 percent
LabelledFrames ==
  {<<LabelledRow(first, 1), LabelledRow(first, 1), LabelledRow(second, 0),
     LabelledRow(second, 0), LabelledRow(third, 1)>> :
   first \in ResponderSpellings \cup OtherSpellings,
   second \in NonResponderSpellings \cup OtherSpellings,
   third \in RawLabels}

InitLabels ==
  /\ labelled_df \in LabelledFrames
  /\ plot_df = <<>>
  /\ populations = <<>>
  /\ pop_index = 0
  /\ rows = <<>>
  /\ stats_df = <<>>
  /\ main_pc = "labels"
  /\ runs = <<>>
  /\ n_permutations = 1
  /\ rng = FreshGenerator(<<>>)
  /\ oracle = NoOracle
  /\ NoCall

\* lines 220-232: response_group is assigned and the rows without one dropped
MainLabels ==
  /\ main_pc = "labels"
  /\ plot_df' = DropNaGroups(labelled_df)
  /\ main_pc' = "start"
  /\ UNCHANGED <<populations, pop_index, rows, stats_df, runs>>
  /\ UNCHANGED <<loadVars, filterVars, callVars, bhVars, permVars, restVars>>

NextLabels ==
  \/ MainLabels
  \/ MainEmpty
  \/ MainStart
  \/ MainSkip
  \/ MainTest
  \/ PermShuffle
  \/ PermReturn
  \/ MainAppend
  \/ MainNoRows
  \/ MainTable

(***************************************************************************)
(* main: two populations and the generator they share.                     *)
(***************************************************************************)
\* the samples of a group of b_cell: none or two
FewSamples == Samples(0) \cup Samples(2)

\* plot_df with b_cell and nk_cell; the responders, two of nk_cell and none
\* or two of b_cell, all have 1 percent
SharedFrames ==
  {GroupRows("b_cell", "Responder", x) \o GroupRows("b_cell", "Non-responder", y)
     \o GroupRows("nk_cell", "Responder", Constant(2, FromInt(1)))
     \o GroupRows("nk_cell", "Non-responder", v) :
   x \in {<<>>, Constant(2, FromInt(1))}, y \in FewSamples, v \in Samples(2)}

InitShared ==
  /\ plot_df \in SharedFrames
  /\ populations = <<>>
  /\ pop_index = 0
  /\ rows = <<>>
  /\ stats_df = <<>>
  /\ main_pc = "start"
  /\ runs = <<>>
  /\ n_permutations = 1
  /\ rng = FreshGenerator(<<>>)
  /\ oracle = NoOracle
  /\ NoCall

NextShared ==
  \/ MainStart
  \/ MainSkip
  \/ MainTest
  \/ PermShuffle
  \/ PermReturn
  \/ MainAppend
  \/ MainTable
  \/ MainRerun

(***************************************************************************)
(* load_csv_into_db called again with the same file.                       *)
(***************************************************************************)
\* the rows of GoodRows, and sample A once more under another treatment and
\* with another response
FileRows ==
  GoodRows
    \cup {[CsvRow(<<"P1">>, <<"S1">>, <<"c1">>, <<"3", "4">>, <<"A">>, n)
             EXCEPT !.treatment = <<"DrugB">>, !.response = <<" ", "no">>] :
            n \in {CountCells(<<<<"5">>, <<"4">>, <<"3">>, <<"2">>, <<"1">>>>)}}

\* files of one or two rows
CsvFiles == [1..1 -> FileRows] \cup [1..2 -> FileRows]

InitFile ==
  /\ InitLoad
  /\ csv_file \in CsvFiles

\* lines 156-202 for csv_file: the header is accepted, the row loop entered
LoadFileBegin ==
  /\ LoadCalled
  /\ rowsLeft' = Len(csv_file)
  /\ connected' = TRUE
  /\ dbExists' = TRUE
  /\ conn' = "open"
  /\ tx' = initialize_schema(db)
  /\ population_cache' = PopulationIds(initialize_schema(db))
  /\ pc' = "rows"
  /\ load_result' = NoResult
  /\ UNCHANGED <<db, rowsRead>>
  /\ UNCHANGED <<filterVars, callVars, statVars>>

\* lines 203-299: the next row of csv_file is read and stored
LoadFileRow ==
  /\ pc = "rows"
  /\ rowsLeft > 0
  /\ LET r == csv_file[row_count + 1]
         res == ProcessRow(tx, project_cache, subject_cache, population_cache, r)
     IN /\ res.error = NoResult
        /\ row' = r
        /\ tx' = res.tables
        /\ project_cache' = res.project_cache
        /\ subject_cache' = res.subject_cache
  /\ rowsLeft' = rowsLeft - 1
  /\ row_count' = row_count + 1
  /\ rowsRead' = rowsRead + 1
  /\ UNCHANGED <<dbExists, db, conn, connected, pc, population_cache,
                 load_result, dbAtCall, loads, summary_result, df>>
  /\ UNCHANGED <<filterVars, callVars, statVars>>

NextFile ==
  \/ LoadFileBegin
  \/ LoadFileRow
  \/ LoadCsvCommit

\* outside Part 3 no list is adjusted and no test is run
InitNoBH ==
  /\ p_values = <<>>
  /\ bh = <<>>
  /\ bh_pc = "ready"

InitNoExample ==
  /\ iterations = 0
  /\ extreme = 0

InitNoAnalysis ==
  /\ categories = <<>>
  /\ fit_index = 0
  /\ fit_log = <<>>
  /\ results = <<>>
  /\ results_df = <<>>
  /\ analyze_result = NoResult
  /\ analyze_pc = "ready"

InitNoPrepare ==
  /\ prepare_result = NoResult
  /\ prepare_pc = "ready"

InitNoLabels == labelled_df = <<>>

InitNoFile == csv_file = <<>>

InitRest == InitNoExample /\ InitNoAnalysis /\ InitNoPrepare /\ InitNoLabels /\ InitNoFile

InitNoStats == InitNoBH /\ InitNoPerm /\ InitNoMain /\ InitRest

vars == <<loadVars, filterVars, callVars, statVars>>

Init == InitLoad /\ InitNoFilter /\ InitNoCall /\ InitNoStats

Next == NextLoad

Spec == Init /\ [][Next]_vars

InitFilterSpec == InitLoad /\ InitFilter /\ InitNoCall /\ InitNoStats

SpecFilter == InitFilterSpec /\ [][NextFilter]_vars

InitKeywordsSpec == InitLoad /\ InitKeywords /\ InitNoStats

SpecKeywords == InitKeywordsSpec /\ [][NextKeywords]_vars

InitBHSpec == InitLoad /\ InitNoFilter /\ InitNoCall /\ InitBH /\ InitNoPerm /\ InitNoMain /\ InitRest

SpecBH == InitBHSpec /\ [][NextBH]_vars

InitPermSpec == InitLoad /\ InitNoFilter /\ InitNoCall /\ InitNoBH /\ InitPerm /\ InitNoMain /\ InitRest

SpecPerm == InitPermSpec /\ [][NextPerm]_vars

InitStatsSpec == InitLoad /\ InitNoFilter /\ InitNoCall /\ InitNoBH /\ InitSlider /\ InitMain /\ InitRest

SpecStats == InitStatsSpec /\ [][NextStats]_vars

InitExampleSpec == InitLoad /\ InitNoFilter /\ InitNoCall /\ InitNoBH /\ InitExample /\ InitNoAnalysis /\ InitNoPrepare /\ InitNoLabels /\ InitNoFile

SpecExample == InitExampleSpec /\ [][NextExample]_vars

InitAnalyzeSpec == InitLoad /\ InitNoFilter /\ InitNoCall /\ InitNoBH /\ InitNoPerm /\ InitNoMain /\ InitNoExample /\ InitAnalysis /\ InitNoPrepare /\ InitNoLabels /\ InitNoFile

SpecAnalyze == InitAnalyzeSpec /\ [][NextAnalyze]_vars

InitPrepareSpec == InitLoad /\ InitFilter /\ InitNoCall /\ InitNoStats

SpecPrepare == InitPrepareSpec /\ [][NextPrepare]_vars

InitLabelsSpec == InitLoad /\ InitNoFilter /\ InitNoCall /\ InitNoBH /\ InitLabels /\ InitNoExample /\ InitNoAnalysis /\ InitNoPrepare /\ InitNoFile

SpecLabels == InitLabelsSpec /\ [][NextLabels]_vars

InitSharedSpec == InitLoad /\ InitNoFilter /\ InitNoCall /\ InitNoBH /\ InitShared /\ InitRest

SpecShared == InitSharedSpec /\ [][NextShared]_vars

InitFileSpec == InitFile /\ InitNoFilter /\ InitNoCall /\ InitNoBH /\ InitNoPerm /\ InitNoMain /\ InitNoExample /\ InitNoAnalysis /\ InitNoPrepare /\ InitNoLabels

SpecFile == InitFileSpec /\ [][NextFile]_vars

(***************************************************************************)
(* Properties of the loader and of the aggregation query.                  *)
(***************************************************************************)
ValidationMessages ==
  {"CSV file has no header", "CSV missing required columns",
   "Missing count for population"}

StoreContents(t) == <<t.project, t.subject, t.sample, t.sample_cell_count>>

\* C1: a load_csv_into_db call that ended in a validation error (no header,
\* missing required column, blank count cell) left the project, subject,
\* sample and sample_cell_count tables as they were when the call started,
\* also when valid rows of the same file preceded the offending row.
C1_AllOrNothing ==
  (pc = "idle" /\ load_result.kind = "ValueError"
     /\ load_result.message \in ValidationMessages)
    => StoreContents(db) = StoreContents(dbAtCall)

\* a second row with a blank count raised after a first row was stored in
\* the transaction
C1_Witness ==
  /\ pc = "idle"
  /\ load_result.message = "Missing count for population"
  /\ row_count = 2

BlankPops(r) == {p \in Pops : Strip(r.counts[p]) = <<>>}

PopIndex(p) == CHOOSE i \in 1..Len(CELL_POPULATIONS) : CELL_POPULATIONS[i] = p

FirstBlankPop(r) ==
  CHOOSE p \in BlankPops(r) : \A q \in BlankPops(r) : PopIndex(p) <= PopIndex(q)

\* the cells the loop body evaluates before the first blank count cell parse
ParsesBeforeFirstBlank(r) ==
  /\ Strip(r.age) = <<>> \/ IsIntLiteral(Strip(r.age))
  /\ Strip(r.time_from_treatment_start) = <<>>
       \/ IsIntLiteral(Strip(r.time_from_treatment_start))
  /\ \A q \in Pops :
       PopIndex(q) < PopIndex(FirstBlankPop(r)) => IsIntLiteral(Strip(r.counts[q]))

\* C2 as stated: whichever population's count cell of the row read is blank,
\* the call raised the ValueError naming that population and the row's
\* sample code.
C2_EveryBlankNamed ==
  \A p \in Pops :
    (row # NoRow /\ p \in BlankPops(row))
      => load_result = MissingCountError(p, Strip(row.sample))

\* C2 (amended): a row read with a blank count cell always ends the call with
\* a ValueError (the row is not skipped, the loop is left, the connection is
\* closed, nothing of the call is stored); the error names the FIRST blank
\* population in CELL_POPULATIONS order and the row's stripped sample code
\* whenever the cells evaluated before it parse.
C2_FirstBlankRejected ==
  (row # NoRow /\ BlankPops(row) # {})
    => /\ pc = "idle"
       /\ conn = "closed"
       /\ load_result.kind = "ValueError"
       /\ db = dbAtCall
       /\ ParsesBeforeFirstBlank(row)
            => load_result = MissingCountError(FirstBlankPop(row), Strip(row.sample))

\* a row with two blank count cells raised, naming the first, and a later
\* row of the file stays unread
C2_Witness ==
  /\ row # NoRow
  /\ Cardinality(BlankPops(row)) >= 2
  /\ load_result = MissingCountError(FirstBlankPop(row), Strip(row.sample))
  /\ rowsLeft > 0

Unique(t) ==
  /\ \A x, y \in t.subject :
       (x.project_id = y.project_id /\ x.subject_code = y.subject_code) => x = y
  /\ \A x, y \in t.sample : x.sample_code = y.sample_code => x = y
  /\ \A x, y \in t.sample_cell_count :
       (x.sample_id = y.sample_id /\ x.population_id = y.population_id) => x = y

\* C3: whatever calls were made, the store holds at most one subject per
\* (project, subject code), one sample per sample code and one count row per
\* (sample, population); this also holds inside an open transaction.
C3_Uniqueness == Unique(db) /\ Unique(tx)

\* a sample code was loaded a second time for an already stored subject
C3_Witness ==
  /\ pc = "idle"
  /\ load_result = Returned
  /\ Cardinality(db.sample) = 1
  /\ \E s \in db.sample : s.id = 2
  /\ Cardinality(db.subject) = 1
  /\ Cardinality(db.sample_cell_count) = Len(CELL_POPULATIONS)

\* C4 as stated: every stored count is a non-negative integer.
C4_NonNegativeCounts ==
  \A c \in db.sample_cell_count : c.count >= 0

RECURSIVE SumDfCounts(_, _)
SumDfCounts(d, idx) ==
  IF idx = {} THEN 0
  ELSE LET i == CHOOSE x \in idx : TRUE
       IN d[i].count + SumDfCounts(d, idx \ {i})

RowsOfSample(d, code) == {j \in 1..Len(d) : d[j].sample = code}

StoredCountsOf(t, code) ==
  {c \in t.sample_cell_count :
     \E s \in t.sample : s.sample_code = code /\ s.id = c.sample_id}

\* C5: in the table a summary loader returned, all rows of a sample carry the
\* same total_count, and it is the sum of the count column over the sample's
\* rows and the sum of the counts stored for the sample.
C5_TotalCount ==
  \A i \in 1..Len(df) :
    /\ \A j \in RowsOfSample(df, df[i].sample) :
         df[j].total_count = df[i].total_count
    /\ df[i].total_count = SumDfCounts(df, RowsOfSample(df, df[i].sample))
    /\ df[i].total_count = SumCounts(StoredCountsOf(db, df[i].sample))

\* a summary of two samples with different totals
C5_Witness ==
  /\ summary_result = Returned
  /\ Len(df) = 2 * Len(CELL_POPULATIONS)
  /\ \E i, j \in 1..Len(df) : df[i].total_count # df[j].total_count

\* 0 <= n/d <= 1 for a fraction; NULL is not in the interval
InUnitInterval(q) ==
  /\ q # NullReal
  /\ \/ q[2] > 0 /\ 0 <= q[1] /\ q[1] <= q[2]
     \/ q[2] < 0 /\ q[2] <= q[1] /\ q[1] <= 0

\* C6 as stated: every summary row has percentage = count * 100 / total_count
\* and a proportion count / total_count in [0, 1], and the percentages of a
\* sample with all populations recorded sum to 100.
C6_Percentages ==
  \A i \in 1..Len(df) :
    /\ df[i].percentage # NullReal
    /\ df[i].percentage = <<df[i].count * 100, df[i].total_count>>
    /\ InUnitInterval(SqlDivide(df[i].count, df[i].total_count))
    /\ Cardinality(RowsOfSample(df, df[i].sample)) = Len(CELL_POPULATIONS)
         => 100 * SumDfCounts(df, RowsOfSample(df, df[i].sample))
              = 100 * df[i].total_count

\* C7: a call that raised FileNotFoundError (missing CSV for the loader,
\* missing database for the summary loaders) opened no connection and left
\* the database file as it was: not created, not changed.
C7_NotFoundBeforeConnect ==
  [][((loads' # loads /\ load_result' = FileNotFound)
        \/ (summary_result' = FileNotFound /\ summary_result # FileNotFound))
       => (dbExists' = dbExists /\ db' = db /\ connected' = FALSE
             /\ conn' = "closed")]_vars

\* both kinds of call failed on a missing path and there is still no database
C7_Witness ==
  /\ load_result = FileNotFound
  /\ summary_result = FileNotFound
  /\ ~dbExists

(***************************************************************************)
(* Properties of the group filter.                                         *)
(***************************************************************************)
\* the table apply_filters returned
Out == heap[out_ref]

NonEmptyPredicates == {c \in FilterColumnSet : selection[c] # {}}

MatchesAll(r) ==
  \A c \in NonEmptyPredicates : r.values[c] \in selection[c]

InOut(r) == \E j \in 1..Len(Out) : Out[j] = r

\* C8: each predicate acts on its own column: every returned row has, for
\* each non-empty allowed set, a value in that set, and every input row that
\* was removed fails some NON-EMPTY predicate, so an empty allowed set
\* removes nothing.
C8_EmptyMeansNoFilter ==
  fpc = "returned" =>
    /\ \A c \in NonEmptyPredicates :
         \A j \in 1..Len(Out) : Out[j].values[c] \in selection[c]
    /\ \A i \in 1..Len(df_before) :
         ~InOut(df_before[i])
           => \E c \in NonEmptyPredicates : df_before[i].values[c] \notin selection[c]

\* a call with empty and non-empty predicates that kept one row and removed
\* another
C8_Witness ==
  /\ fpc = "returned"
  /\ NonEmptyPredicates # {}
  /\ NonEmptyPredicates # FilterColumnSet
  /\ Len(Out) = 1
  /\ Len(df_before) = 2

\* C9: the returned table is another object than the table passed in, the
\* passed table keeps its rows (also after the caller writes into the
\* result), and with all predicates empty the returned rows equal the input
\* rows.
C9_ReturnsCopy ==
  /\ fpc # "ready" => (out_ref # df_ref /\ heap[df_ref] = df_before)
  /\ (fpc = "returned" /\ selection = NoSelection) => Out = df_before

\* the caller wrote into the unfiltered result of a two-row table
C9_Witness ==
  /\ fpc = "mutated"
  /\ selection = NoSelection
  /\ Len(df_before) = 2
  /\ Out # heap[df_ref]

\* C10: with two or more non-empty predicates the returned table is exactly
\* the input rows that satisfy all of them, in input order.
C10_Conjunction ==
  (fpc = "returned" /\ Cardinality(NonEmptyPredicates) >= 2)
    => Out = SelectSeq(df_before, MatchesAll)

\* two non-empty predicates; one row passes both, the other passes only the
\* first
C10_Witness ==
  /\ fpc = "returned"
  /\ Cardinality(NonEmptyPredicates) >= 2
  /\ Len(df_before) = 2
  /\ Len(Out) = 1
  /\ \E i \in 1..2 :
       /\ ~InOut(df_before[i])
       /\ df_before[i].values["treatment"] \in selection["treatment"]
       /\ df_before[i].values["sample_type"] \notin selection["sample_type"]
       /\ selection["sample_type"] # {}

(***************************************************************************)
(* Properties of apply_filters called by keyword.                          *)
(***************************************************************************)
Indexes(table) == [i \in 1..Len(table) |-> table[i].index]

RowsWhere(column, allowed) ==
  SelectSeq(df_before, LAMBDA r : r.values[column] \in allowed)

PassesCondition == "selected_condition" \in DOMAIN kwargs

PassesResponses == "selected_responses" \in DOMAIN kwargs

\* C11: a call of apply_filters that passes selected_condition and
\* selected_responses is accepted; with a non-empty selected_condition (and
\* nothing else selected) it returns exactly the rows whose condition is in
\* the set, and with a non-empty selected_responses exactly the rows whose
\* response is in the set.
C11_ConditionAndResponse ==
  (fpc # "ready" /\ PassesCondition /\ PassesResponses) =>
    /\ filter_error = NoResult
    /\ (kwargs.selected_condition # {} /\ kwargs.selected_responses = {}) =>
         Indexes(Out) = Indexes(RowsWhere("condition", kwargs.selected_condition))
    /\ (kwargs.selected_responses # {} /\ kwargs.selected_condition = {}) =>
         Indexes(Out) = Indexes(RowsWhere("response", kwargs.selected_responses))

(***************************************************************************)
(* Properties of _bh_adjust.                                               *)
(***************************************************************************)
Indices(p) == 1..Len(p)

Reorderings(m) ==
  {f \in [1..m -> 1..m] : \A j, k \in 1..m : j # k => f[j] # f[k]}

Reordered(p, f) == [i \in 1..Len(p) |-> p[f[i]]]

\* the sort of the reordered list that breaks ties as the call's sort did
SortOfReordered(f) ==
  [k \in 1..Len(f) |-> CHOOSE i \in 1..Len(f) : f[i] = bh.order[k]]

\* C15: the result has the length of the input and position i holds the
\* adjustment of input i: the value at rank k goes back to the index that
\* rank came from, and reordering the input (ties and unsorted lists
\* included) reorders the output the same way.
C15_IndexCorrespondence ==
  bh_pc = "returned" =>
    /\ Len(bh.out) = Len(p_values)
    /\ \A k \in Indices(p_values) : bh.out[bh.order[k]] = bh.adjusted[k]
    /\ \A f \in Reorderings(Len(p_values)) :
         _bh_adjust(Reordered(p_values, f), SortOfReordered(f)).out
           = Reordered(bh.out, f)

\* an unsorted list with a tie whose adjusted values differ
C15_Witness ==
  /\ bh_pc = "returned"
  /\ p_values = <<One, Float(1, 4), Float(1, 4)>>
  /\ bh.out # bh.adjusted
  /\ bh.out[1] # bh.out[2]

\* C16: the output is monotone in the input: a raw p-value that is not
\* larger gets an adjusted value that is not larger, so equal raw p-values
\* get equal adjusted values.
C16_Monotone ==
  bh_pc = "returned" =>
    \A i, j \in Indices(p_values) :
      FLessEq(p_values[i], p_values[j]) => FLessEq(bh.out[i], bh.out[j])

\* a tie below 1 on which the running minimum acted
C16_Witness ==
  /\ bh_pc = "returned"
  /\ \E i, j \in Indices(p_values) :
       /\ i # j
       /\ p_values[i] = p_values[j]
       /\ FLess(bh.out[i], One)
  /\ bh.accumulated # bh.scaled

FMinOf(xs) == CHOOSE x \in xs : \A y \in xs : FLessEq(x, y)

\* the reference calculation: the least p * m / #{values <= p} over the raw
\* values p at or above p_values[i], clipped to [0, 1]
ReferenceAdjusted(p, i) ==
  LET m == Len(p)
      AtMost(j) == Cardinality({l \in 1..m : FLessEq(p[l], p[j])})
      later == {j \in 1..m : FLessEq(p[i], p[j])}
  IN Clip(FMinOf({FDiv(FMul(p[j], FromInt(m)), FromInt(AtMost(j))) : j \in later}),
          Zero, One)

\* x is the exact value n/d up to the rounding of the input and of the two
\* operations: within 4 units of 2^-MantissaBits relative error
Near(x, e) == Abs(x[1] * e[2] - e[1] * x[2]) * Pow2(MantissaBits) <= 4 * e[1] * x[2]

KnownAdjusted == <<<<1, 25>>, <<1, 25>>, <<1, 25>>, <<1, 2>>>>

ReorderedAdjusted == <<<<1, 5>>, <<3, 100>>, <<3, 40>>>>

C18_AdjustedAtLeastRaw ==
  bh_pc = "returned" =>
    \A i \in Indices(p_values) :
      /\ FLessEq(Zero, bh.out[i])
      /\ FLessEq(bh.out[i], One)
      /\ FLessEq(p_values[i], bh.out[i])

\* the rank of index i in the sort of the call
RankOf(i) == CHOOSE k \in Indices(p_values) : bh.order[k] = i

\* C19 as claimed: before the clip, the value for index i is at least
\* p_values[i] * m / rank(i).
C19_PreClampAtLeast ==
  bh_pc = "returned" =>
    \A i \in Indices(p_values) :
      FLessEq(bh.scaled[RankOf(i)], bh.accumulated[RankOf(i)])

\* C19 amended: before the clip, the value for index i is at most
\* p_values[i] * m / rank(i): it is the least p_(j) * m / j over the ranks
\* j >= rank(i), and equals p_values[i] * m / rank(i) at the largest rank.
C19_PreClampAtMost ==
  bh_pc = "returned" =>
    \A i \in Indices(p_values) :
      LET k == RankOf(i)
      IN /\ FLessEq(bh.accumulated[k], bh.scaled[k])
         /\ \E j \in k..bh.m : bh.accumulated[k] = bh.scaled[j]
         /\ \A j \in k..bh.m : FLessEq(bh.accumulated[k], bh.scaled[j])
         /\ k = bh.m => bh.accumulated[k] = bh.scaled[k]

\* distinct raw p-values where the value of the smaller one is lowered
C19_Witness ==
  /\ bh_pc = "returned"
  /\ p_values = <<Float(1, 2), Float(63, 64)>>
  /\ FLess(bh.accumulated[1], bh.scaled[1])

(***************************************************************************)
(* The permutation test                                                    *)
(***************************************************************************)
\* the two arrays hold the same values, each as often
SameValues(x, y) ==
  /\ Len(x) = Len(y)
  /\ \A v \in {x[i] : i \in DOMAIN x} :
       Cardinality({i \in DOMAIN x : x[i] = v}) = Cardinality({i \in DOMAIN y : y[i] = v})

\* the shuffled splits at least as far apart as the two groups
ExtremeSplits ==
  LET apart == FAbs(FSub(Mean(a), Mean(b)))
  IN {i \in DOMAIN shuffled : ~ FLess(SplitStatistic(shuffled[i], Len(a)), apart)}

\* C12: a call that has returned made n_permutations shuffled splits of the
\* pooled values and returns (k + 1) / (n_permutations + 1), k the number of
\* splits whose |mean(first n_a) - mean(rest)| is >= |mean(a) - mean(b)|; the
\* p-value is in (0, 1] and never below 1 / (n_permutations + 1)
C12_PValueIsCountPlusOne ==
  perm_pc = "returned" =>
    LET k == Cardinality(ExtremeSplits)
        least == FDiv(One, FromInt(n_permutations + 1))
    IN /\ Len(shuffled) = n_permutations
       /\ Len(diffs) = n_permutations
       /\ \A i \in DOMAIN shuffled :
            /\ SameValues(shuffled[i], a \o b)
            /\ diffs[i] = SplitStatistic(shuffled[i], Len(a))
       /\ p_value = FDiv(FromInt(k + 1), FromInt(n_permutations + 1))
       /\ FLess(Zero, p_value)
       /\ FLessEq(p_value, One)
       /\ FLessEq(least, p_value)

\* a call returned with some but not all of its splits counted
C12_Witness ==
  /\ perm_pc = "returned"
  /\ n_permutations >= 2
  /\ Cardinality(ExtremeSplits) > 0
  /\ Cardinality(ExtremeSplits) < n_permutations
  /\ FLess(p_value, One)
  /\ FLess(FDiv(One, FromInt(n_permutations + 1)), p_value)

\* pairs of calls, each from a freshly seeded generator, the second with the
\* groups of the first exchanged
ExchangedCalls ==
  {pair \in (DOMAIN calls) \X (DOMAIN calls) :
     /\ pair[1] < pair[2]
     /\ calls[pair[1]].a = calls[pair[2]].b
     /\ calls[pair[1]].b = calls[pair[2]].a}

\* C13 as stated: the calls (a, b) and (b, a), each from a generator freshly
\* seeded with the same seed, return the same p-value
C13_Symmetric ==
  \A pair \in ExchangedCalls : calls[pair[1]].p_value = calls[pair[2]].p_value

\* C13: the calls (a, b) and (b, a), each from a generator freshly seeded
\* with the same seed, compare against the same observed |mean(a) - mean(b)|
\* and shuffle with the same permutations
C13_ObservedSymmetric ==
  \A pair \in ExchangedCalls :
    /\ calls[pair[1]].observed = calls[pair[2]].observed
    /\ calls[pair[1]].permutations = calls[pair[2]].permutations

\* groups of different sizes were exchanged and the p-value changed
C13_Witness ==
  \E pair \in ExchangedCalls :
    /\ Len(calls[pair[1]].a) # Len(calls[pair[1]].b)
    /\ calls[pair[1]].observed = calls[pair[2]].observed
    /\ calls[pair[1]].permutations = calls[pair[2]].permutations
    /\ calls[pair[1]].p_value # calls[pair[2]].p_value

(***************************************************************************)
(* The statistics of main                                                  *)
(***************************************************************************)
\* C14: two runs of main over the same filtered data, each seeding its
\* generator with the same seed, with the same n_permutations, produce the
\* same raw p-values, the same adjusted p-values and the same table order
C14_Reproducible ==
  Len(runs) = 2 => runs[1] = runs[2]

\* two runs have finished whose table lists two populations, the second of
\* the loop first, with a raw p-value below 1
C14_Witness ==
  /\ Len(runs) = 2
  /\ Len(runs[2].stats_df) = 2
  /\ runs[2].stats_df[1].population = "nk_cell"
  /\ FLess(runs[2].stats_df[1].p_value, One)
  /\ runs[1].stats_df = runs[2].stats_df

\* the samples of a population and response group in the filtered data
SamplesOf(pop, group) ==
  {k \in DOMAIN plot_df :
     plot_df[k].population = pop /\ plot_df[k].response_group = group}

Eligible(pop) ==
  /\ Cardinality(SamplesOf(pop, "Responder")) >= 2
  /\ Cardinality(SamplesOf(pop, "Non-responder")) >= 2

TableRowsOf(pop) == {k \in DOMAIN stats_df : stats_df[k].population = pop}

\* C20: after a run the result table has a row for a population if and only
\* if the filtered data has at least 2 Responder and at least 2 Non-responder
\* values of it, one row for each such population, and every row has
\* n_responders >= 2 and n_non_responders >= 2
C20_EligibleOnly ==
  runs # <<>> =>
    /\ \A pop \in {"b_cell", "nk_cell"} :
         Cardinality(TableRowsOf(pop)) = IF Eligible(pop) THEN 1 ELSE 0
    /\ \A k \in DOMAIN stats_df :
         /\ stats_df[k].n_responders >= 2
         /\ stats_df[k].n_non_responders >= 2
         /\ stats_df[k].n_responders = Cardinality(SamplesOf(stats_df[k].population, "Responder"))
         /\ stats_df[k].n_non_responders = Cardinality(SamplesOf(stats_df[k].population, "Non-responder"))

\* a run has finished: nk_cell, with one responder at 1 and two
\* non-responders at 0, is not in the table, and b_cell is
C20_Witness ==
  /\ runs # <<>>
  /\ Cardinality(SamplesOf("nk_cell", "Responder")) = 1
  /\ Cardinality(SamplesOf("nk_cell", "Non-responder")) = 2
  /\ TableRowsOf("nk_cell") = {}
  /\ Cardinality(TableRowsOf("b_cell")) = 1

\* the sort key of r is at most that of q: (p_adj_bh, p_value, population)
\* compared lexicographically
KeyAtMost(r, q) ==
  IF r.p_adj_bh # q.p_adj_bh THEN FLess(r.p_adj_bh, q.p_adj_bh)
  ELSE IF r.p_value # q.p_value THEN FLess(r.p_value, q.p_value)
  ELSE WordRank(r.population) <= WordRank(q.population)

\* C21: in the result table of a run every row's key (p_adj_bh, p_value,
\* population) is at most the key of the row after it, and no two rows have
\* the same key, so the row values determine the order
C21_TableSorted ==
  runs # <<>> =>
    /\ \A k \in 1..(Len(stats_df) - 1) : KeyAtMost(stats_df[k], stats_df[k + 1])
    /\ \A j, k \in DOMAIN stats_df :
         j # k => ~ (KeyAtMost(stats_df[j], stats_df[k]) /\ KeyAtMost(stats_df[k], stats_df[j]))

\* a table of two rows with equal adjusted p-values in which the population
\* tested second, with the smaller raw p-value, comes first
C21_Witness ==
  /\ runs # <<>>
  /\ Len(stats_df) = 2
  /\ rows[1].population = "b_cell"
  /\ stats_df[1].population = "nk_cell"
  /\ stats_df[1].p_adj_bh = stats_df[2].p_adj_bh
  /\ FLess(stats_df[1].p_value, stats_df[2].p_value)

(***************************************************************************)
(* The example of three responders and three non-responders                *)
(***************************************************************************)
\* the significant populations of the table shown
SignificantPopulations ==
  {Significant(stats_df)[k].population : k \in DOMAIN Significant(stats_df)}

FailedFits == {k \in DOMAIN fit_log : fit_log[k].kind # "ok"}

ResultPopulations == {results_df[k].population : k \in DOMAIN results_df}

\* C23: when the fit of a population fails, the call still returns: the
\* table has the result of every other population and no unflagged result
\* of the population whose fit failed
C23_FitFailureRecoverable ==
  (analyze_pc \in {"returned", "raised"} /\ FailedFits # {}) =>
    /\ analyze_result = Returned
    /\ \A k \in DOMAIN categories :
         k \in FailedFits <=> categories[k] \notin ResultPopulations

\* C25: a call of prepare_response_plot_df does not end in an error
C25_PrepareReturns ==
  prepare_pc # "ready" => prepare_result = Returned

(***************************************************************************)
(* The response labels                                                     *)
(***************************************************************************)
\* the group a label as entered stands for
SpelledGroup(label) ==
  IF label \in ResponderSpellings THEN "Responder"
  ELSE IF label \in NonResponderSpellings THEN "Non-responder"
  ELSE "neither"

RECURSIVE SpelledValues(_, _)
\* the percentages of the samples whose label stands for the group
SpelledValues(frame, group) ==
  IF frame = <<>> THEN <<>>
  ELSE (IF SpelledGroup(Head(frame).response) = group
          THEN <<Head(frame).percentage>> ELSE <<>>)
       \o SpelledValues(Tail(frame), group)

\* C24: a label is Responder exactly if, trimmed and in lower case, it is
\* yes, y, responder or responders, and Non-responder exactly if it is no, n,
\* non-responder, nonresponder, non-responders or nonresponders; a sample
\* with a missing or any other label is in neither group: the sizes, means,
\* medians and the arguments of the permutation test of a population are
\* those of the samples with a label of the tables
C24_LabelsNormalised ==
  main_pc = "done" =>
    LET x == SpelledValues(labelled_df, "Responder")
        y == SpelledValues(labelled_df, "Non-responder")
    IN /\ Where(plot_df, "nk_cell", "Responder") = x
       /\ Where(plot_df, "nk_cell", "Non-responder") = y
       /\ Len(plot_df) = Len(x) + Len(y)
       /\ \A k \in DOMAIN rows :
            /\ rows[k].n_responders = Len(x)
            /\ rows[k].n_non_responders = Len(y)
            /\ rows[k].mean_resp = Mean(x)
            /\ rows[k].mean_non_resp = Mean(y)
            /\ rows[k].median_resp = Median(x)
            /\ rows[k].median_non_resp = Median(y)
       /\ \A k \in DOMAIN calls :
            /\ calls[k].a = x
            /\ calls[k].b = y
            /\ rows[k].p_value = calls[k].p_value

\* a run has finished with a table of one row: two samples are labelled
\* "RESPONDER\n", two "NO ", and the fifth, with no label, is not counted
C24_Witness ==
  /\ main_pc = "done"
  /\ labelled_df[1].response = <<"R", "E", "S", "P", "O", "N", "D", "E", "R", "\n">>
  /\ labelled_df[3].response = <<"N", "O", " ">>
  /\ labelled_df[5].response = MissingLabel
  /\ Len(stats_df) = 1
  /\ stats_df[1].n_responders = 2
  /\ stats_df[1].n_non_responders = 2

(***************************************************************************)
(* Connections                                                             *)
(***************************************************************************)
\* C26: when no call of load_csv_into_db or of a summary loader is running,
\* the connection the last call opened is closed, whether the call returned
\* or raised
C26_ConnectionsClosed ==
  pc = "idle" => conn = "closed"

\* a load has raised inside the row loop and, later, the query of a summary
\* loader has raised: both calls had opened a connection
C26_Witness ==
  /\ pc = "idle"
  /\ connected
  /\ load_result.message = "Missing count for population"
  /\ summary_result = DatabaseError
  /\ conn = "closed"

(***************************************************************************)
(* The generator shared by the populations of a run                        *)
(***************************************************************************)
\* the first call of the run that call i belongs to
FirstOfRun(i) ==
  IF runs # <<>> /\ i > Len(runs[1].p_values) THEN Len(runs[1].p_values) + 1 ELSE 1

RECURSIVE ShuffledBefore(_, _)
\* the lengths shuffled in calls from..(i - 1), in order
ShuffledBefore(from, i) ==
  IF from >= i THEN <<>>
  ELSE Constant(Len(calls[from].diffs), Len(calls[from].a) + Len(calls[from].b))
       \o ShuffledBefore(from + 1, i)

SamePopulationValues(i, j) == calls[i].a = calls[j].a /\ calls[i].b = calls[j].b

\* C27 as stated: with the seed and n_permutations of the run, the raw
\* p-value of a population depends only on its responder and non-responder
\* values, not on the populations tested before it
C27_Independent ==
  \A i, j \in DOMAIN calls :
    SamePopulationValues(i, j) => calls[i].p_value = calls[j].p_value

\* C27: the raw p-value of a population depends only on its values, the
\* seed, n_permutations and the lengths shuffled for the populations tested
\* before it since the generator was seeded
C27_SharedGenerator ==
  \A i, j \in DOMAIN calls :
    (/\ SamePopulationValues(i, j)
     /\ ShuffledBefore(FirstOfRun(i), i) = ShuffledBefore(FirstOfRun(j), j))
      => calls[i].p_value = calls[j].p_value

\* two runs have finished; b_cell and nk_cell have the same values and
\* different p-values, and each has in the second run the p-value of the first
C27_Witness ==
  /\ Len(runs) = 2
  /\ Len(calls) = 4
  /\ SamePopulationValues(1, 2)
  /\ calls[1].p_value # calls[2].p_value
  /\ SamePopulationValues(1, 3)
  /\ ShuffledBefore(FirstOfRun(3), 3) = <<>>
  /\ ShuffledBefore(FirstOfRun(4), 4) = <<4>>
  /\ calls[3].p_value = calls[1].p_value
  /\ calls[4].p_value = calls[2].p_value

(***************************************************************************)
(* The stored counts                                                       *)
(***************************************************************************)
CountRowsOf(t, sample_id, name) ==
  {c \in t.sample_cell_count :
     /\ c.sample_id = sample_id
     /\ \E p \in t.cell_population : p.name = name /\ p.id = c.population_id}

\* C28: between calls every stored sample has exactly one count row for each
\* of the five populations, every count row belongs to a stored sample and a
\* stored population, and there are no other count rows: none is left of a
\* sample that a later row replaced
C28_CompleteCounts ==
  pc = "idle" =>
    /\ \A s \in db.sample : \A name \in Pops :
         Cardinality(CountRowsOf(db, s.id, name)) = 1
    /\ \A c \in db.sample_cell_count :
         /\ \E s \in db.sample : s.id = c.sample_id
         /\ \E p \in db.cell_population : p.id = c.population_id
    /\ Cardinality(db.sample_cell_count) = 5 * Cardinality(db.sample)

\* the second call has returned; it loaded sample A again: the sample has
\* another id and the five count rows are those of the new id
C28_Witness ==
  /\ pc = "idle"
  /\ loads = 2
  /\ load_result = Returned
  /\ \E old \in dbAtCall.sample : \E new \in db.sample :
       /\ old.sample_code = <<"A">>
       /\ new.sample_code = <<"A">>
       /\ new.id # old.id
       /\ \A c \in db.sample_cell_count : c.sample_id = new.id
  /\ Cardinality(db.sample_cell_count) = 5

(***************************************************************************)
(* Loading a file again                                                    *)
(***************************************************************************)
ProjectNameOf(t, subject_id) ==
  LET s == CHOOSE x \in t.subject : x.id = subject_id
  IN (CHOOSE p \in t.project : p.id = s.project_id).name

SubjectCodeOf(t, subject_id) == (CHOOSE x \in t.subject : x.id = subject_id).subject_code

\* the store without its row ids
Logical(t) ==
  [projects |-> {p.name : p \in t.project},
   subjects |-> {<<ProjectNameOf(t, s.id), s.subject_code, s.condition, s.age, s.sex>> :
                   s \in t.subject},
   samples |-> {<<ProjectNameOf(t, x.subject_id), SubjectCodeOf(t, x.subject_id),
                  x.sample_code, x.sample_type, x.time_from_treatment_start,
                  x.treatment, x.response>> : x \in t.sample},
   counts |-> {<<(CHOOSE x \in t.sample : x.id = c.sample_id).sample_code,
                 (CHOOSE p \in t.cell_population : p.id = c.population_id).name,
                 c.count>> : c \in t.sample_cell_count}]

\* the last row of the file with the sample code
LastRowOf(file, code) ==
  file[SetMax({i \in DOMAIN file : Strip(file[i].sample) = code})]

\* C29: when a call with the file has returned, a further call with the same
\* file leaves the projects, subjects, samples and counts, taken without
\* their row ids, as they were; a sample code of several rows is stored with
\* the subject, treatment, response and counts of the last of them
C29_Idempotent ==
  (pc = "idle" /\ load_result = Returned) =>
    /\ loads >= 2 => Logical(db) = Logical(dbAtCall)
    /\ \A i \in DOMAIN csv_file :
         LET code == Strip(csv_file[i].sample)
             last == LastRowOf(csv_file, code)
         IN \A x \in db.sample :
              x.sample_code = code =>
                /\ ProjectNameOf(db, x.subject_id) = Strip(last.project)
                /\ SubjectCodeOf(db, x.subject_id) = Strip(last.subject)
                /\ x.treatment = StripOrNone(last.treatment)
                /\ x.response = StripOrNone(last.response)
                /\ \A name \in Pops : \A c \in CountRowsOf(db, x.id, name) :
                     c.count = IntOf(Strip(last.counts[name]))

\* the file has two rows for sample A, the first under project P1 and DrugA,
\* the second under project P2; it was loaded twice
C29_Witness ==
  /\ pc = "idle"
  /\ load_result = Returned
  /\ loads = 2
  /\ Len(csv_file) = 2
  /\ csv_file[1].sample = <<"A">> /\ csv_file[1].project = <<"P1">>
  /\ csv_file[2].sample = <<"A">> /\ csv_file[2].project = <<"P2">>
  /\ csv_file[1].counts # csv_file[2].counts
  /\ Cardinality(db.sample) = 1
  /\ Cardinality(db.subject) = 2
  /\ Cardinality(db.sample_cell_count) = 5

(***************************************************************************)
(* Subjects                                                                *)
(***************************************************************************)
\* the sample and the five counts of the row are in t under subject s
StoredUnder(t, s, r) ==
  \E x \in t.sample :
    /\ x.sample_code = Strip(r.sample)
    /\ x.subject_id = s.id
    /\ \A name \in Pops :
         /\ Cardinality(CountRowsOf(t, x.id, name)) = 1
         /\ \A c \in CountRowsOf(t, x.id, name) : c.count = IntOf(Strip(r.counts[name]))

\* C30: a stored subject row never changes, in the committed store or inside
\* a transaction, whatever condition, age or sex later rows give for its
\* (project, subject code); the sample and counts of every row that is read
\* are stored under the subject with the row's project and subject code
C30_FirstWriteWins ==
  [][/\ \A s \in db.subject : s \in db'.subject
     /\ (pc = "rows" /\ pc' = "rows") =>
          /\ \A s \in tx.subject : s \in tx'.subject
          /\ \E s \in tx'.subject :
               /\ ProjectNameOf(tx', s.id) = Strip(row'.project)
               /\ s.subject_code = Strip(row'.subject)
               /\ StoredUnder(tx', s, row')]_vars

\* in a second call a row gives subject S1 of project P1, stored by the first
\* call with condition c1 and age 34, the condition c2 and no age; the
\* subject row is the stored one and sample A is under it
C30_Witness ==
  /\ pc = "rows"
  /\ loads = 2
  /\ row.condition = <<"c2">>
  /\ row.age = <<>>
  /\ \E s \in db.subject :
       /\ s.condition = <<"c1">>
       /\ s.age = <<34>>
       /\ s \in tx.subject
       /\ Cardinality(tx.subject) = 1
       /\ StoredUnder(tx, s, row)

====
